---- MODULE Spec2Model ----
(***************************************************************************)
(* Financial-summary aggregation engine of fintrack-genz-vision.           *)
(*                                                                         *)
(* The transaction collection is the 'transactions' blob of localStorage,  *)
(* newest first.  Dates are instants counted in ticks (TicksPerDay ticks   *)
(* to a calendar day, local time = UTC); the JavaScript Date operations    *)
(* the code uses (setDate, setMonth, setHours, toISOString, toDateString,  *)
(* toLocaleDateString) are modelled on the proleptic Gregorian calendar    *)
(* with the overflow normalisation of ECMAScript's MakeDay.  Amounts are   *)
(* whole currency units and arithmetic is exact; a ratio is kept as a      *)
(* fraction [num, den], so a division by zero shows as den = 0.            *)
(* Every writer dispatches 'transactionsUpdated' synchronously after       *)
(* setItem, so the components' transactions state is the stored blob and   *)
(* the derived snapshots are operators over (transactions, now).           *)
(*                                                                         *)
(* Savings goals live in two places.  The goal ledger is the state of      *)
(* GoalsContext (goals, error) with its 'fintrack-goals' blob; its         *)
(* operations run after the provider's mount effect has finished, so       *)
(* loading is false throughout and is not a variable.  The SavingsGoal     *)
(* card of the dashboard keeps its own list under the 'savingsGoals' key   *)
(* and dispatches 'savingsGoalsUpdated'.  Texts typed into a form are      *)
(* sequences of characters.  A goal's icon and colour are looked up from   *)
(* its category and are left out of the goal records.                      *)
(***************************************************************************)
EXTENDS Integers, Sequences, FiniteSets, TLC

VARIABLES transactions, now, selectedPeriod,
          goals,              \* GoalsContext: const [goals, setGoals]
          storedGoals,        \* localStorage['fintrack-goals']
          goalsError,         \* GoalsContext: const [error, setError]
          dialogErrors,       \* GoalDialog / AddMoneyDialog: field errors
          savingsGoals,       \* SavingsGoal: const [savingsGoals, ...]
          storedSavingsGoals, \* localStorage['savingsGoals']
          dashboardGoals,     \* Dashboard: const [savingsGoals, ...]
          emitted,            \* events dispatched by the latest writer
          pending,            \* AddTransaction: submissions inside their delay
          formErrors,         \* AddTransaction: const [errors, setErrors]
          isLoading,          \* AddTransaction: const [isLoading, ...]
          userProfile,        \* localStorage['userProfile']
          corruptKeys,        \* keys of localStorage whose text is not JSON
          writesFail,         \* localStorage.setItem throws (quota exceeded)
          thrown,             \* handlers an exception has escaped from
          messages,           \* FinancialChatbot: const [messages, ...]
          chatLoading,        \* FinancialChatbot: const [isLoading, ...]
          requests,           \* advisor requests awaiting their response
          mounted             \* the FinancialChatbot component is mounted

goalVars == <<goals, storedGoals, goalsError, dialogErrors,
              savingsGoals, storedSavingsGoals, dashboardGoals>>

submitVars == <<pending, formErrors, isLoading, userProfile>>

faultVars == <<corruptKeys, writesFail, thrown>>

chatVars == <<messages, chatLoading, requests, mounted>>

vars == <<transactions, now, selectedPeriod, goalVars, emitted,
          submitVars, faultVars, chatVars>>

(* ------------------------------ bounds -------------------------------- *)
TicksPerDay == 2
MaxTxns == 3
MaxRun == 31
MaxExtra == 2

(* ------------------------- calendar (Date) ---------------------------- *)
IsLeap(y) == (y % 4 = 0 /\ y % 100 # 0) \/ y % 400 = 0

YearLen(y) == IF IsLeap(y) THEN 366 ELSE 365

\* m is a JavaScript month index, 0 = January
DaysInMonth(y, m) ==
  IF m = 1 THEN (IF IsLeap(y) THEN 29 ELSE 28)
  ELSE IF m \in {3, 5, 8, 10} THEN 30 ELSE 31

Years == 2021..2026

RECURSIVE YearStartFrom(_)
\* day number of 1 January of year y; day 0 is 1 January 2023
YearStartFrom(y) ==
  IF y = 2023 THEN 0
  ELSE IF y > 2023 THEN YearStartFrom(y - 1) + YearLen(y - 1)
  ELSE YearStartFrom(y + 1) - YearLen(y)

RECURSIVE MonthStartFrom(_, _)
MonthStartFrom(y, m) ==
  IF m = 0 THEN YearStartFrom(y)
  ELSE MonthStartFrom(y, m - 1) + DaysInMonth(y, m - 1)

\* the calendar, tabulated once
MonthStartTable == [y \in Years |-> [m \in 0..11 |-> MonthStartFrom(y, m)]]

MonthStart(y, m) == MonthStartTable[y][m]

\* ECMAScript MakeDay: month index and day of month may lie outside their
\* ranges and carry over into the neighbouring months and years
MakeDay(y, m, d) == MonthStart(y + (m \div 12), m % 12) + d - 1

DayOf(t) == t \div TicksPerDay
TimeOfDay(t) == t % TicksPerDay

\* year, month index and day of month of every day number of Years
CivilTable ==
  [n \in MonthStartFrom(2021, 0)..(MonthStartFrom(2026, 11) + 30) |->
     LET y == CHOOSE yy \in Years :
                /\ MonthStartFrom(yy, 0) <= n
                /\ n < MonthStartFrom(yy, 0) + YearLen(yy)
         m == CHOOSE mm \in 0..11 :
                /\ MonthStartFrom(y, mm) <= n
                /\ n < MonthStartFrom(y, mm) + DaysInMonth(y, mm)
     IN <<y, m, n - MonthStartFrom(y, m) + 1>>]

getFullYear(t) == CivilTable[DayOf(t)][1]

getMonth(t) == CivilTable[DayOf(t)][2]

getDate(t) == CivilTable[DayOf(t)][3]

\* date.setDate(d): same year, month and time of day
setDate(t, d) ==
  MakeDay(getFullYear(t), getMonth(t), d) * TicksPerDay + TimeOfDay(t)

\* date.setMonth(m): same year, day of month and time of day
setMonth(t, m) ==
  MakeDay(getFullYear(t), m, getDate(t)) * TicksPerDay + TimeOfDay(t)

\* date.setHours(0, 0, 0, 0)
setHoursStart(t) == DayOf(t) * TicksPerDay

\* date.setHours(23, 59, 59, 999)
setHoursEnd(t) == DayOf(t) * TicksPerDay + (TicksPerDay - 1)

\* new Date().toISOString(): the stored form of a timestamp
toISOString(t) ==
  [year |-> getFullYear(t), month |-> getMonth(t) + 1,
   day |-> getDate(t), time |-> TimeOfDay(t)]

\* new Date(txn.timestamp) for a stored ISO string
ParseDate(iso) ==
  MakeDay(iso.year, iso.month - 1, iso.day) * TicksPerDay + iso.time

\* date.toDateString(): the calendar day, without the time
toDateString(t) == <<getFullYear(t), getMonth(t), getDate(t)>>

\* toLocaleDateString('en-US', {month: 'short', year: 'numeric'})
toMonthKey(t) == [month |-> getMonth(t), year |-> getFullYear(t)]

\* new Date("Jan 2024").getTime(): first instant of that month
ParseMonthKey(k) == MakeDay(k.year, k.month, 1) * TicksPerDay

Instant(y, mon, d, tod) == MakeDay(y, mon - 1, d) * TicksPerDay + tod

(* ----------------------------- inputs --------------------------------- *)
Periods == {"week", "month", "quarter"}

\* what the add-transaction form can hold when it is submitted
Forms ==
  { [amount |-> 1000, category |-> "Other", type |-> "income"],
    [amount |-> 600, category |-> "Other", type |-> "expense"],
    [amount |-> 600, category |-> "Food & Dining", type |-> "expense"],
    [amount |-> 1000, category |-> "Food & Dining", type |-> "expense"] }

FormsCal ==
  { [amount |-> 1000, category |-> "Salary", type |-> "income"],
    [amount |-> 600, category |-> "Food & Dining", type |-> "expense"] }

FormsStreak ==
  { [amount |-> 600, category |-> "Food & Dining", type |-> "expense"] }

\* readings of the wall clock
ClockReadings ==
  { Instant(2024, 1, 20, 0), Instant(2024, 1, 30, 1), Instant(2024, 2, 5, 1) }

ClockReadingsCal ==
  { Instant(2023, 12, 31, 1), Instant(2024, 1, 1, 0), Instant(2024, 1, 1, 1),
    Instant(2024, 3, 2, 0), Instant(2024, 3, 2, 1), Instant(2024, 3, 24, 1),
    Instant(2024, 3, 31, 1) }

StreakStart == Instant(2024, 3, 10, 0)

ClockReadingsStreak ==
  { StreakStart + k : k \in 0..(3 * TicksPerDay) }


\* what the store of a long-time user holds when the program is opened
AchRuns == 5..7
AchCounts == 48..50

FormsAch ==
  { [amount |-> 20, category |-> "Other", type |-> "income"],
    [amount |-> 600, category |-> "Other", type |-> "expense"] }

(* ------------------------- aggregation engine ------------------------- *)
RECURSIVE SumAmount(_)
\* list.reduce((sum, t) => sum + t.amount, 0)
SumAmount(list) ==
  IF list = <<>> THEN 0 ELSE Head(list).amount + SumAmount(Tail(list))

IsIncome(t) == t.type = "income"
IsExpense(t) == t.type = "expense"

\* a ratio a / b * 100 kept exact; den = 0 is JavaScript's NaN or Infinity
Fraction(a, b) == [num |-> a * 100, den |-> b]
Zero == [num |-> 0, den |-> 1]

\* a rate without the guard against a zero income
computeSavingsRate_Unguarded(income, expense) == Fraction(income - expense, income)

\* totalIncome > 0 ? ((totalIncome - totalExpenses) / totalIncome) * 100 : 0
computeSavingsRate(income, expense) ==
  IF income > 0 THEN Fraction(income - expense, income) ELSE Zero

\* a balance that adds every amount, whatever the type
computeBalance_Unsigned(list) == SumAmount(list)

RECURSIVE computeBalance(_)
\* transactions.reduce((sum, t) => sum + (income ? t.amount : -t.amount), 0)
computeBalance(list) ==
  IF list = <<>> THEN 0
  ELSE computeBalance(SubSeq(list, 1, Len(list) - 1))
       + (IF list[Len(list)].type = "income"
          THEN list[Len(list)].amount ELSE 0 - list[Len(list)].amount)

\* thisMonth = new Date(); thisMonth.setDate(1)
thisMonth(t) == setDate(t, 1)

monthlyTransactions(list, t) ==
  SelectSeq(list, LAMBDA x : ParseDate(x.timestamp) >= thisMonth(t))

hasTransaction(list, checkDate) ==
  \E i \in 1..Len(list) :
    /\ ParseDate(list[i].timestamp) >= setHoursStart(checkDate)
    /\ ParseDate(list[i].timestamp) <= setHoursEnd(checkDate)

RECURSIVE streakLoop(_, _, _, _)
\* for (let i = 0; i < 30; i++) { ... if (has) streak++; else if (i > 0) break }
streakLoop(list, today, i, streak) ==
  IF i >= 30 THEN streak
  ELSE IF hasTransaction(list, setDate(today, getDate(today) - i))
       THEN streakLoop(list, today, i + 1, streak + 1)
       ELSE IF i > 0 THEN streak
            ELSE streakLoop(list, today, i + 1, streak)

computeStreak(list, today) == streakLoop(list, today, 0, 0)

Min(a, b) == IF a <= b THEN a ELSE b
Max(a, b) == IF a >= b THEN a ELSE b

\* the achievement list with every progress left uncapped
achievements_Uncapped(streak, length, balance) ==
  << [id |-> "1", title |-> "Saving Streak", unlocked |-> streak >= 7,
      progress |-> streak, maxProgress |-> 7],
     [id |-> "2", title |-> "Transaction Master", unlocked |-> length >= 50,
      progress |-> length, maxProgress |-> 50],
     [id |-> "3", title |-> "Emergency Fund", unlocked |-> balance >= 1000,
      progress |-> balance, maxProgress |-> 1000] >>

\* calculateSummary: const achievements = [ ... ] over the local streak,
\* transactions.length and balance
achievements(streak, length, balance) ==
  << [id |-> "1", title |-> "Saving Streak", unlocked |-> streak >= 7,
      progress |-> Min(streak, 7), maxProgress |-> 7],
     [id |-> "2", title |-> "Transaction Master", unlocked |-> length >= 50,
      progress |-> Min(length, 50), maxProgress |-> 50],
     [id |-> "3", title |-> "Emergency Fund", unlocked |-> balance >= 1000,
      progress |-> Min(balance, 1000), maxProgress |-> 1000] >>

\* Dashboard.calculateSummary over the component's transactions at `t`
calculateSummary(list, t) ==
  LET monthly == monthlyTransactions(list, t)
      totalIncome == SumAmount(SelectSeq(monthly, IsIncome))
      totalExpenses == SumAmount(SelectSeq(monthly, IsExpense))
      balance == computeBalance(list)
      streak == computeStreak(list, t)
  IN [totalIncome |-> totalIncome,
      totalExpenses |-> totalExpenses,
      netIncome |-> totalIncome - totalExpenses,
      savingsRate |-> computeSavingsRate(totalIncome, totalExpenses),
      balance |-> balance,
      streak |-> streak,
      level |-> Max(1, Len(list) \div 10),
      achievements |-> achievements(streak, Len(list), balance)]

RECURSIVE lastDateStreak(_, _, _)
\* transactions.forEach(txn => { if (lastDate === null || txnDate === lastDate)
\*   { streak++; lastDate = txnDate } })
lastDateStreak(list, lastDate, streak) ==
  IF list = <<>> THEN streak
  ELSE LET txnDate == toDateString(ParseDate(Head(list).timestamp)) IN
       IF lastDate = <<>> \/ txnDate = lastDate
       THEN lastDateStreak(Tail(list), txnDate, streak + 1)
       ELSE lastDateStreak(Tail(list), lastDate, streak)

RECURSIVE dashboardBalance(_, _)
\* transactions.forEach(txn => { if (income) balance += amount; else balance -= amount })
dashboardBalance(list, balance) ==
  IF list = <<>> THEN balance
  ELSE dashboardBalance(Tail(list),
         IF Head(list).type = "income"
         THEN balance + Head(list).amount ELSE balance - Head(list).amount)

\* the first Dashboard revision's calculateDashboardData
calculateDashboardData(list) ==
  [balance |-> dashboardBalance(list, 0),
   spent |-> SumAmount(SelectSeq(list, IsExpense)),
   savings |-> SumAmount(SelectSeq(list, IsIncome)),
   streak |-> lastDateStreak(list, <<>>, 0)]


(* ------------------------------ analytics ----------------------------- *)
\* window starts with the month and the quarter exchanged
startDate_Swapped(period, t) ==
  IF period = "week" THEN setDate(t, getDate(t) - 7)
  ELSE IF period = "month" THEN setMonth(t, getMonth(t) - 3)
  ELSE setMonth(t, getMonth(t) - 1)

\* startDate = new Date(); then setDate(getDate() - 7) or setMonth(getMonth() - k)
startDate(period, t) ==
  IF period = "week" THEN setDate(t, getDate(t) - 7)
  ELSE IF period = "month" THEN setMonth(t, getMonth(t) - 1)
  ELSE setMonth(t, getMonth(t) - 3)

\* transactions.filter(t => new Date(t.timestamp) >= startDate)
getFilteredTransactions(list, period, t) ==
  SelectSeq(list, LAMBDA x : ParseDate(x.timestamp) >= startDate(period, t))

\* categoryMap after one more expense: a new key goes last (insertion order)
addToCategoryMap(map, txn) ==
  IF \E i \in 1..Len(map) : map[i].category = txn.category
  THEN [i \in 1..Len(map) |->
          IF map[i].category = txn.category
          THEN [map[i] EXCEPT !.amount = @ + txn.amount, !.count = @ + 1]
          ELSE map[i]]
  ELSE Append(map, [category |-> txn.category, amount |-> txn.amount, count |-> 1])

RECURSIVE buildCategoryMap_AllTypes(_, _)
\* a category map that also takes the incomes
buildCategoryMap_AllTypes(list, map) ==
  IF list = <<>> THEN map
  ELSE buildCategoryMap_AllTypes(Tail(list), addToCategoryMap(map, Head(list)))

RECURSIVE buildCategoryMap(_, _)
\* filteredTransactions.forEach(transaction => { if (type === 'expense') ... })
buildCategoryMap(list, map) ==
  IF list = <<>> THEN map
  ELSE buildCategoryMap(Tail(list),
         IF Head(list).type = "expense"
         THEN addToCategoryMap(map, Head(list)) ELSE map)

RECURSIVE sortByAmountDesc(_)
\* .sort((a, b) => b.amount - a.amount), a stable sort
sortByAmountDesc(list) ==
  IF list = <<>> THEN <<>>
  ELSE LET sorted == sortByAmountDesc(SubSeq(list, 1, Len(list) - 1))
           x == list[Len(list)]
           k == Cardinality({i \in 1..Len(sorted) : sorted[i].amount >= x.amount})
       IN SubSeq(sorted, 1, k) \o <<x>> \o SubSeq(sorted, k + 1, Len(sorted))

categoryBreakdown(filtered) ==
  LET map == buildCategoryMap(filtered, <<>>)
      totalExpense == SumAmount(SelectSeq(filtered, IsExpense))
  IN sortByAmountDesc(
       [i \in 1..Len(map) |->
          [category |-> map[i].category,
           amount |-> map[i].amount,
           percentage |-> IF totalExpense > 0
                          THEN Fraction(map[i].amount, totalExpense) ELSE Zero,
           transactions |-> map[i].count]])

\* monthlyMap after one more transaction
addToMonthlyMap(map, txn) ==
  LET monthKey == toMonthKey(ParseDate(txn.timestamp))
      income == IF txn.type = "income" THEN txn.amount ELSE 0
      expense == IF txn.type = "income" THEN 0 ELSE txn.amount
  IN IF \E i \in 1..Len(map) : map[i].month = monthKey
     THEN [i \in 1..Len(map) |->
             IF map[i].month = monthKey
             THEN [map[i] EXCEPT !.income = @ + income, !.expense = @ + expense]
             ELSE map[i]]
     ELSE Append(map, [month |-> monthKey, income |-> income, expense |-> expense])

RECURSIVE buildMonthlyMap(_, _)
buildMonthlyMap(list, map) ==
  IF list = <<>> THEN map
  ELSE buildMonthlyMap(Tail(list), addToMonthlyMap(map, Head(list)))

RECURSIVE sortByMonth_IgnoringYear(_)
\* a sort that compares the month of the year only
sortByMonth_IgnoringYear(list) ==
  IF list = <<>> THEN <<>>
  ELSE LET sorted == sortByMonth_IgnoringYear(SubSeq(list, 1, Len(list) - 1))
           x == list[Len(list)]
           k == Cardinality({i \in 1..Len(sorted) :
                  sorted[i].month.month <= x.month.month})
       IN SubSeq(sorted, 1, k) \o <<x>> \o SubSeq(sorted, k + 1, Len(sorted))

RECURSIVE sortByMonth(_)
\* .sort((a, b) => new Date(a.month).getTime() - new Date(b.month).getTime())
sortByMonth(list) ==
  IF list = <<>> THEN <<>>
  ELSE LET sorted == sortByMonth(SubSeq(list, 1, Len(list) - 1))
           x == list[Len(list)]
           k == Cardinality({i \in 1..Len(sorted) :
                  ParseMonthKey(sorted[i].month) <= ParseMonthKey(x.month)})
       IN SubSeq(sorted, 1, k) \o <<x>> \o SubSeq(sorted, k + 1, Len(sorted))

monthlyTrends(filtered) ==
  LET map == buildMonthlyMap(filtered, <<>>)
  IN sortByMonth(
       [i \in 1..Len(map) |->
          [month |-> map[i].month,
           income |-> map[i].income,
           expense |-> map[i].expense,
           savings |-> map[i].income - map[i].expense,
           savingsRate |-> computeSavingsRate(map[i].income, map[i].expense)]])

\* Analytics.calculateAnalytics for the selected period at `t`
calculateAnalytics(list, period, t) ==
  LET filtered == getFilteredTransactions(list, period, t)
      totalExpense == SumAmount(SelectSeq(filtered, IsExpense))
      totalIncome == SumAmount(SelectSeq(filtered, LAMBDA x : x.type # "expense"))
  IN [categoryData |-> categoryBreakdown(filtered),
      monthlyData |-> monthlyTrends(filtered),
      totals |-> [income |-> totalIncome,
                  expense |-> totalExpense,
                  savings |-> totalIncome - totalExpense,
                  savingsRate |-> computeSavingsRate(totalIncome, totalExpense)]]

\* the first Analytics revision: every transaction is added to its category
addToSpending(map, txn) ==
  IF \E i \in 1..Len(map) : map[i].category = txn.category
  THEN [i \in 1..Len(map) |->
          IF map[i].category = txn.category
          THEN [map[i] EXCEPT !.amount = @ + txn.amount] ELSE map[i]]
  ELSE Append(map, [category |-> txn.category, amount |-> txn.amount])

RECURSIVE spendingByCategory(_, _)
spendingByCategory(list, map) ==
  IF list = <<>> THEN map
  ELSE spendingByCategory(Tail(list), addToSpending(map, Head(list)))

(* ---------------------------- form texts ----------------------------- *)
\* the text of n characters c
Rep(c, n) == [i \in 1..n |-> c]

RECURSIVE trimStart(_)
trimStart(text) ==
  IF text # <<>> /\ Head(text) = " " THEN trimStart(Tail(text)) ELSE text

RECURSIVE trimEnd(_)
trimEnd(text) ==
  IF text # <<>> /\ text[Len(text)] = " "
  THEN trimEnd(SubSeq(text, 1, Len(text) - 1)) ELSE text

\* String.prototype.trim
trim(text) == trimEnd(trimStart(text))

DigitChars == {"0", "1", "2", "3", "4", "5", "6", "7", "8", "9"}

DigitValue(c) ==
  CASE c = "0" -> 0 [] c = "1" -> 1 [] c = "2" -> 2 [] c = "3" -> 3
    [] c = "4" -> 4 [] c = "5" -> 5 [] c = "6" -> 6 [] c = "7" -> 7
    [] c = "8" -> 8 [] c = "9" -> 9

DigitChar(d) ==
  CASE d = 0 -> "0" [] d = 1 -> "1" [] d = 2 -> "2" [] d = 3 -> "3"
    [] d = 4 -> "4" [] d = 5 -> "5" [] d = 6 -> "6" [] d = 7 -> "7"
    [] d = 8 -> "8" [] d = 9 -> "9"

RECURSIVE digitsOf(_)
digitsOf(n) ==
  IF n < 10 THEN <<DigitChar(n)>>
  ELSE digitsOf(n \div 10) \o <<DigitChar(n % 10)>>

\* Number.prototype.toString of a whole number
numberToString(n) == IF n < 0 THEN <<"-">> \o digitsOf(0 - n) ELSE digitsOf(n)

NaN == [nan |-> TRUE, value |-> 0]
Number(n) == [nan |-> FALSE, value |-> n]

RECURSIVE digitsPrefix(_, _, _)
\* the longest run of decimal digits at the head of the text
digitsPrefix(text, value, seen) ==
  IF text # <<>> /\ Head(text) \in DigitChars
  THEN digitsPrefix(Tail(text), value * 10 + DigitValue(Head(text)), TRUE)
  ELSE [value |-> value, seen |-> seen]

\* parseFloat: leading blanks, a sign, then the longest numeric prefix; NaN
\* when there is none.  The texts drawn below hold no fractional digits, so
\* a decimal point ends the prefix.
parseFloat(text) ==
  LET t == trimStart(text)
      signed == t # <<>> /\ Head(t) \in {"-", "+"}
      body == IF signed THEN Tail(t) ELSE t
      r == digitsPrefix(body, 0, FALSE)
  IN IF ~r.seen THEN NaN
     ELSE IF signed /\ Head(t) = "-" THEN Number(0 - r.value)
     ELSE Number(r.value)

\* new Date('YYYY-MM-DD'): midnight of that day
ParseDay(d) == MakeDay(d.year, d.month - 1, d.day) * TicksPerDay

\* date.toISOString().split('T')[0]
toDayString(t) == [year |-> getFullYear(t), month |-> getMonth(t) + 1, day |-> getDate(t)]

(* ---------------------------- goal ledger ----------------------------- *)
\* localStorage.getItem('userProfile') is null
NoProfile == [present |-> FALSE, balance |-> [null |-> TRUE, value |-> 0]]

\* what localStorage holds under a key: nothing (getItem returns null), or
\* the JSON text of a list
NoBlob == [present |-> FALSE, items |-> <<>>]
Blob(items) == [present |-> TRUE, items |-> items]

\* GoalDialog: the values of the category select
goalCategories ==
  {"transport", "housing", "travel", "education", "wedding", "gifts",
   "emergency", "technology", "entertainment", "other"}

RECURSIVE SumCurrent(_)
SumCurrent(list) ==
  IF list = <<>> THEN 0 ELSE Head(list).current + SumCurrent(Tail(list))

\* goals.reduce((total, goal) => total + goal.current, 0)
getTotalSaved(list) == SumCurrent(list)

\* goals.filter(goal => !goal.isAchieved).length
getActiveGoalsCount(list) == Len(SelectSeq(list, LAMBDA g : ~g.isAchieved))

\* Date.now().toString() + Math.random()...: an id no goal of the list has
freshId(list) ==
  LET used == {list[i].id : i \in 1..Len(list)}
  IN CHOOSE m \in 11..(11 + Len(list)) :
       m \notin used /\ \A k \in 11..(m - 1) : k \in used

\* addGoal: setGoals(prevGoals => [...prevGoals, newGoal])
addGoal(list, goalData, id, t) ==
  Append(list,
         [id |-> id, title |-> goalData.title,
          description |-> goalData.description, target |-> goalData.target,
          current |-> 0, deadline |-> goalData.deadline,
          category |-> goalData.category, isAchieved |-> FALSE,
          createdAt |-> t, updatedAt |-> t])

\* { ...goal, ...updates, updatedAt: new Date() }
mergeGoal(goal, updates, t) ==
  [f \in DOMAIN goal |->
     IF f = "updatedAt" THEN t
     ELSE IF f \in DOMAIN updates THEN updates[f] ELSE goal[f]]

\* updateGoal: prevGoals.map(goal => goal.id === id ? {...} : goal)
updateGoal(list, id, updates, t) ==
  [i \in 1..Len(list) |->
     IF list[i].id = id THEN mergeGoal(list[i], updates, t) ELSE list[i]]

\* a delete that drops the first goal, whatever the id
deleteGoal_First(list, id) == IF list = <<>> THEN list ELSE Tail(list)

\* deleteGoal: prevGoals.filter(goal => goal.id !== id)
deleteGoal(list, id) == SelectSeq(list, LAMBDA g : g.id # id)

\* add money with the saved amount capped at the target
addMoneyToGoal_Capped(list, id, amount, t) ==
  [i \in 1..Len(list) |->
     IF list[i].id = id
     THEN LET newCurrent == Min(list[i].current + amount, list[i].target) IN
          [list[i] EXCEPT !.current = newCurrent,
                          !.isAchieved = newCurrent >= list[i].target,
                          !.updatedAt = t]
     ELSE list[i]]

\* addMoneyToGoal, past its amount guard: prevGoals.map(goal => ...)
addMoneyToGoal(list, id, amount, t) ==
  [i \in 1..Len(list) |->
     IF list[i].id = id
     THEN LET newCurrent == list[i].current + amount IN
          [list[i] EXCEPT !.current = newCurrent,
                          !.isAchieved = newCurrent >= list[i].target,
                          !.updatedAt = t]
     ELSE list[i]]

\* markGoalAchieved: { ...goal, isAchieved: true, updatedAt: new Date() }
markGoalAchieved(list, id, t) ==
  [i \in 1..Len(list) |->
     IF list[i].id = id
     THEN [list[i] EXCEPT !.isAchieved = TRUE, !.updatedAt = t]
     ELSE list[i]]

\* JSON.stringify(goals): each Date becomes its ISO string
stringifyGoals(list) ==
  [i \in 1..Len(list) |->
     [list[i] EXCEPT !.deadline = toISOString(@),
                     !.createdAt = toISOString(@),
                     !.updatedAt = toISOString(@)]]

\* JSON.parse(savedGoals).map(goal => ({...goal, deadline: new Date(...), ...}))
parseGoals(blob) ==
  [i \in 1..Len(blob) |->
     [blob[i] EXCEPT !.deadline = ParseDate(@),
                     !.createdAt = ParseDate(@),
                     !.updatedAt = ParseDate(@)]]

\* the goals a first run starts with
defaultGoals(t) ==
  << [id |-> 1,
      title |-> <<"E","m","e","r","g","e","n","c","y"," ","F","u","n","d">>,
      description |-> <<"6"," ","m","o","n","t","h","s"," ","o","f"," ",
                        "e","x","p","e","n","s","e","s"," ","s","a","v","e","d">>,
      target |-> 12000, current |-> 4500,
      deadline |-> ParseDay([year |-> 2024, month |-> 12, day |-> 31]),
      category |-> "safety", isAchieved |-> FALSE,
      createdAt |-> t, updatedAt |-> t],
     [id |-> 2,
      title |-> <<"D","r","e","a","m"," ","V","a","c","a","t","i","o","n">>,
      description |-> <<"T","r","i","p"," ","t","o"," ","J","a","p","a","n",
                        " ","i","n"," ","s","u","m","m","e","r">>,
      target |-> 3500, current |-> 1200,
      deadline |-> ParseDay([year |-> 2024, month |-> 7, day |-> 1]),
      category |-> "travel", isAchieved |-> FALSE,
      createdAt |-> t, updatedAt |-> t],
     [id |-> 3,
      title |-> <<"N","e","w"," ","C","a","r">>,
      description |-> <<"D","o","w","n"," ","p","a","y","m","e","n","t"," ",
                        "f","o","r"," ","c","a","r">>,
      target |-> 8000, current |-> 2100,
      deadline |-> ParseDay([year |-> 2024, month |-> 10, day |-> 15]),
      category |-> "transport", isAchieved |-> FALSE,
      createdAt |-> t, updatedAt |-> t] >>

\* GoalsProvider, mount effect: the goals to show for what the store holds
loadGoals(stored, t) ==
  IF stored.present THEN parseGoals(stored.items) ELSE defaultGoals(t)

\* GoalsProvider, save effect: if (!loading && goals.length > 0) setItem(...)
saveGoals(list, stored) ==
  IF Len(list) > 0 THEN Blob(stringifyGoals(list)) ELSE stored

\* GoalsProvider, the mount effect and the save effect that follows it: a
\* blob that does not parse leaves goals empty with 'Failed to load goals';
\* a setItem that throws leaves the store as it was
mountGoals(stored, corrupt, fails, t) ==
  IF "fintrack-goals" \in corrupt
  THEN [goals |-> <<>>, stored |-> stored, error |-> "Failed to load goals"]
  ELSE IF fails /\ Len(loadGoals(stored, t)) > 0
  THEN [goals |-> loadGoals(stored, t), stored |-> stored,
        error |-> "Failed to save goals"]
  ELSE [goals |-> loadGoals(stored, t),
        stored |-> Blob(stringifyGoals(loadGoals(stored, t))),
        error |-> "null"]

\* the empty text of a date input
NoDay == [year |-> 0, month |-> 0, day |-> 0]

\* GoalDialog.validateForm at time t: the fields that get an error
validateForm(formData, t) ==
  (IF trim(formData.title) = <<>> THEN {"title"}
   ELSE IF Len(trim(formData.title)) < 2 THEN {"title"}
   ELSE IF Len(trim(formData.title)) > 50 THEN {"title"}
   ELSE {})
  \cup (IF trim(formData.description) = <<>> THEN {"description"}
        ELSE IF Len(trim(formData.description)) < 10 THEN {"description"}
        ELSE IF Len(trim(formData.description)) > 200 THEN {"description"}
        ELSE {})
  \cup (IF formData.target = <<>> THEN {"target"}
        ELSE LET target == parseFloat(formData.target) IN
             IF target.nan \/ target.value <= 0 THEN {"target"}
             ELSE IF target.value > 1000000 THEN {"target"}
             ELSE {})
  \cup (IF formData.category = "" THEN {"category"} ELSE {})
  \cup (IF formData.deadline = NoDay THEN {"deadline"}
        ELSE IF ParseDay(formData.deadline) <= t THEN {"deadline"}
        ELSE {})

\* GoalDialog, open effect in mode 'edit': the form pre-populated from the goal
prepopulate(goal) ==
  [title |-> goal.title, description |-> goal.description,
   target |-> numberToString(goal.target),
   deadline |-> toDayString(goal.deadline), category |-> goal.category]

\* GoalDialog.handleSubmit: the goalData handed to the ledger
goalDataOf(formData) ==
  [title |-> trim(formData.title),
   description |-> trim(formData.description),
   target |-> parseFloat(formData.target).value,
   deadline |-> ParseDay(formData.deadline),
   category |-> formData.category]

\* AddMoneyDialog.handleSubmit: whether the amount text gets an error
amountError(amount) ==
  IF trim(amount) = <<>> THEN TRUE
  ELSE LET amountToAdd == parseFloat(amount) IN
       IF amountToAdd.nan \/ amountToAdd.value <= 0 THEN TRUE
       ELSE amountToAdd.value > 100000

(* ------------------------- the record store --------------------------- *)
NewTransaction(form, t) ==
  [amount |-> form.amount, category |-> form.category, type |-> form.type,
   timestamp |-> toISOString(t)]

\* AddTransaction.handleSubmit: txns.unshift(newTxn); setItem('transactions');
\* window.dispatchEvent(new Event('transactionsUpdated'))
AddTransaction_handleSubmit(form) ==
  /\ transactions' = <<NewTransaction(form, now)>> \o transactions
  /\ emitted' = {"transactionsUpdated"}
  /\ UNCHANGED <<now, selectedPeriod, goalVars, submitVars, faultVars,
                 chatVars>>

\* the wall clock moves on to a later reading
ClockAdvance(readings) ==
  /\ \E t \in readings : t > now /\ now' = t
  /\ UNCHANGED <<transactions, selectedPeriod, goalVars, emitted,
                 submitVars, faultVars, chatVars>>

\* Analytics: the period tabs
setSelectedPeriod(p) ==
  /\ p # selectedPeriod
  /\ selectedPeriod' = p
  /\ UNCHANGED <<transactions, now, goalVars, emitted, submitVars,
                 faultVars, chatVars>>

(* ---------------- the validated add-transaction form ------------------ *)
\* JSON.stringify of a number and JSON.parse of the result: NaN comes back
\* as null
JsonNumber(n) == [null |-> FALSE, value |-> n]
JsonNull == [null |-> TRUE, value |-> 0]
stringifyNumber(x) == IF x.nan THEN JsonNull ELSE JsonNumber(x.value)

\* value.replace(/[^\d.]/g, '')
cleanValue(value) == SelectSeq(value, LAMBDA c : c \in DigitChars \cup {"."})

\* cleanValue.split('.')
RECURSIVE split(_, _)
split(text, part) ==
  IF text = <<>> THEN <<part>>
  ELSE IF Head(text) = "." THEN <<part>> \o split(Tail(text), <<>>)
  ELSE split(Tail(text), Append(part, Head(text)))

\* handleAmountChange(value): the text the amount field holds afterwards
handleAmountChange(amount, value) ==
  LET parts == split(cleanValue(value), <<>>) IN
  IF Len(parts) > 2 THEN amount
  ELSE IF Len(parts) = 2 /\ Len(parts[2]) > 2 THEN amount
  ELSE cleanValue(value)

\* AddTransaction.validateForm: the fields that get an error; NaN <= 0 is
\* false
AddTransaction_validateForm(form) ==
  {f \in {"amount"} :
     form.amount = <<>>
     \/ (~parseFloat(form.amount).nan /\ parseFloat(form.amount).value <= 0)}
  \cup {f \in {"description"} : trim(form.description) = <<>>}
  \cup {f \in {"category"} : form.category = ""}

\* const newTransaction: Transaction = { ... }
newTransaction(form, t) ==
  [amount |-> parseFloat(form.amount), description |-> trim(form.description),
   category |-> form.category, timestamp |-> toISOString(t),
   type |-> form.type]

\* JSON.stringify of a transaction, read back
stringifyTransaction(txn) == [txn EXCEPT !.amount = stringifyNumber(@)]

\* JSON.parse(localStorage.getItem('transactions') || '[]')
parseTransactions_Nothing(stored, corrupt) ==
  [threw |-> "transactions" \in corrupt, items |-> <<>>]

parseTransactions(stored, corrupt) ==
  IF "transactions" \in corrupt
  THEN [threw |-> TRUE, items |-> <<>>]
  ELSE [threw |-> FALSE, items |-> stored]

\* the collection with the new record last
updatedTransactions_Appended(txn, existingTransactions) ==
  Append(existingTransactions, txn)

\* const updatedTransactions = [newTransaction, ...existingTransactions]
updatedTransactions(txn, existingTransactions) ==
  <<txn>> \o existingTransactions

\* const currentBalance = userProfile.balance || 5420
currentBalance(profile) ==
  IF ~profile.present \/ profile.balance.null \/ profile.balance.value = 0
  THEN 5420
  ELSE profile.balance.value

\* userProfile.balance = currentBalance + balanceChange, stringified
updatedProfile(profile, type, amount) ==
  [present |-> TRUE,
   balance |->
     IF amount.nan THEN JsonNull
     ELSE JsonNumber(currentBalance(profile)
                       + (IF type = "income" THEN amount.value
                          ELSE 0 - amount.value))]

\* handleSubmit up to its await: validateForm, setIsLoading(true), setTimeout
handleSubmit(form) ==
  LET newErrors == AddTransaction_validateForm(form) IN
  /\ formErrors' = newErrors
  /\ IF newErrors # {}
     THEN UNCHANGED <<pending, isLoading>>
     ELSE /\ pending' = Append(pending, [form |-> form, live |-> TRUE])
          /\ isLoading' = TRUE
  /\ UNCHANGED <<transactions, now, selectedPeriod, goalVars, emitted,
                 userProfile, faultVars, chatVars>>

\* handleSubmit after its await, for the submission whose timer is due; an
\* exception ends the handler where it is raised, and the setters of a form
\* that has been unmounted change nothing
handleSubmit_resume ==
  LET form == Head(pending).form
      txn == newTransaction(form, now)
      existing == parseTransactions(transactions, corruptKeys)
      stops == existing.threw \/ writesFail
      profileThrows == "userProfile" \in corruptKeys
  IN /\ pending # <<>>
     /\ pending' = Tail(pending)
     /\ transactions' =
          IF stops THEN transactions
          ELSE updatedTransactions(stringifyTransaction(txn), existing.items)
     /\ corruptKeys' = corruptKeys
     /\ IF stops \/ profileThrows
        THEN /\ thrown' = thrown \cup {"AddTransaction.handleSubmit"}
             /\ UNCHANGED <<userProfile, emitted, isLoading>>
        ELSE /\ userProfile' = updatedProfile(userProfile, form.type, txn.amount)
             /\ emitted' = {"transactionsUpdated", "balanceUpdated"}
             /\ isLoading' = IF Head(pending).live THEN FALSE ELSE isLoading
             /\ thrown' = thrown
     /\ UNCHANGED <<now, selectedPeriod, goalVars, formErrors, writesFail,
                    chatVars>>

\* the user leaves the add-transaction tab and comes back: the form is
\* unmounted and mounted afresh, the timers of the old one keep running
setActiveTab ==
  /\ pending' = [i \in 1..Len(pending) |-> [pending[i] EXCEPT !.live = FALSE]]
  /\ isLoading' = FALSE
  /\ formErrors' = {}
  /\ UNCHANGED <<transactions, now, selectedPeriod, goalVars, emitted,
                 userProfile, faultVars, chatVars>>

\* Dashboard quick actions handleSaveMoney and handleAddIncome:
\* getLocalTransactions(), txns.unshift(txn), setItem, dispatchEvent
quickAction(handler, amount, description, category) ==
  LET txn == [amount |-> JsonNumber(amount), description |-> description,
              category |-> category, timestamp |-> toISOString(now),
              type |-> "income"]
      txns == parseTransactions(transactions, corruptKeys)
  IN IF txns.threw \/ writesFail
     THEN /\ thrown' = thrown \cup {handler}
          /\ UNCHANGED <<transactions, now, selectedPeriod, goalVars, emitted,
                         submitVars, corruptKeys, writesFail, chatVars>>
     ELSE /\ transactions' = updatedTransactions(txn, txns.items)
          /\ emitted' = {"transactionsUpdated"}
          /\ UNCHANGED <<now, selectedPeriod, goalVars, submitVars, faultVars,
                         chatVars>>

handleSaveMoney ==
  quickAction("Dashboard.handleSaveMoney", 50,
              <<"S", "a", "v", "e", "d", " ", "M", "o", "n", "e", "y">>,
              "Savings")

handleAddIncome ==
  quickAction("Dashboard.handleAddIncome", 100,
              <<"A", "d", "d", "e", "d", " ", "I", "n", "c", "o", "m", "e">>,
              "Income")

(* --------------------- goal ledger: the handlers ---------------------- *)
\* what a goal-ledger handler leaves alone
ledgerFrame ==
  UNCHANGED <<transactions, now, selectedPeriod,
              savingsGoals, storedSavingsGoals, dashboardGoals,
              submitVars, writesFail, thrown, chatVars>>

\* setGoals(...) and setError(null), followed by the provider's save effect:
\* try { setItem(...) } catch { setError('Failed to save goals') }; the
\* ledger dispatches no event
setGoals(newGoals) ==
  LET failed == writesFail /\ Len(newGoals) > 0 IN
  /\ goals' = newGoals
  /\ storedGoals' = IF failed THEN storedGoals
                    ELSE saveGoals(newGoals, storedGoals)
  /\ goalsError' = IF failed THEN "Failed to save goals" ELSE "null"
  /\ corruptKeys' = IF failed \/ Len(newGoals) = 0 THEN corruptKeys
                    ELSE corruptKeys \ {"fintrack-goals"}
  /\ emitted' = {}
  /\ ledgerFrame

GoalsContext_addGoal(goalData) ==
  setGoals(addGoal(goals, goalData, freshId(goals), now))

GoalsContext_updateGoal(id, updates) ==
  setGoals(updateGoal(goals, id, updates, now))

GoalsContext_deleteGoal(id) == setGoals(deleteGoal(goals, id))

\* add money with no guard on the amount
GoalsContext_addMoneyToGoal_Unguarded(id, amount) ==
  setGoals(addMoneyToGoal(goals, id, amount, now))

\* if (amount <= 0) { setError('Amount must be greater than 0'); return; }
GoalsContext_addMoneyToGoal(id, amount) ==
  IF amount <= 0
  THEN /\ goalsError' = "Amount must be greater than 0"
       /\ UNCHANGED <<goals, storedGoals, emitted, corruptKeys>>
       /\ ledgerFrame
  ELSE setGoals(addMoneyToGoal(goals, id, amount, now))

GoalsContext_markGoalAchieved(id) ==
  setGoals(markGoalAchieved(goals, id, now))

\* a rejected submission: only the dialog's errors change
dialogRejects ==
  UNCHANGED <<transactions, now, selectedPeriod, goals, storedGoals,
              goalsError, savingsGoals, storedSavingsGoals, dashboardGoals,
              emitted, submitVars, faultVars, chatVars>>

\* GoalDialog.handleSubmit in mode 'create' or 'edit' (of `goal`)
GoalDialog_handleSubmit(formData, mode, goal) ==
  LET newErrors == validateForm(formData, now) IN
  IF newErrors # {}
  THEN dialogErrors' = newErrors /\ dialogRejects
  ELSE IF formData.category \notin goalCategories
  THEN dialogErrors' = {"category"} /\ dialogRejects
  ELSE /\ dialogErrors' = {}
       /\ IF mode = "create"
          THEN GoalsContext_addGoal(goalDataOf(formData))
          ELSE GoalsContext_updateGoal(goal.id, goalDataOf(formData))

\* AddMoneyDialog.handleSubmit for the dialog's `goal`
AddMoneyDialog_handleSubmit(goal, amount) ==
  IF amountError(amount)
  THEN dialogErrors' = {"amount"} /\ dialogRejects
  ELSE /\ dialogErrors' = {}
       /\ GoalsContext_addMoneyToGoal(goal.id, parseFloat(amount).value)

(* ------------------ SavingsGoal card of the dashboard ----------------- *)
\* getLocalSavingsGoals: JSON.parse(getItem('savingsGoals') || '[]')
getLocalSavingsGoals(stored) == IF stored.present THEN stored.items ELSE <<>>

\* saveLocalSavingsGoals: setItem, then dispatchEvent('savingsGoalsUpdated');
\* the listeners (SavingsGoal.loadGoals, Dashboard.updateData) read the key
saveLocalSavingsGoals(updatedGoals) ==
  /\ storedSavingsGoals' = Blob(updatedGoals)
  /\ emitted' = {"savingsGoalsUpdated"}
  /\ savingsGoals' = getLocalSavingsGoals(storedSavingsGoals')
  /\ dashboardGoals' = getLocalSavingsGoals(storedSavingsGoals')
  /\ UNCHANGED <<transactions, now, selectedPeriod, goals, storedGoals,
                 goalsError, dialogErrors, submitVars, faultVars, chatVars>>

SavingsGoal_handleCreateGoal(newGoal) ==
  IF trim(newGoal.title) = <<>> \/ newGoal.targetAmount = <<>>
     \/ newGoal.deadline = NoDay
  THEN UNCHANGED vars
  ELSE saveLocalSavingsGoals(
         Append(savingsGoals,
                [id |-> now, title |-> trim(newGoal.title),
                 targetAmount |-> parseFloat(newGoal.targetAmount).value,
                 currentAmount |-> 0, deadline |-> newGoal.deadline,
                 createdAt |-> toISOString(now)]))

SavingsGoal_handleDeleteGoal(goalId) ==
  saveLocalSavingsGoals(SelectSeq(savingsGoals, LAMBDA g : g.id # goalId))

\* currentAmount: Math.min(currentAmount + amount, targetAmount)
SavingsGoal_handleAddToGoal(goalId, amount) ==
  saveLocalSavingsGoals(
    [i \in 1..Len(savingsGoals) |->
       IF savingsGoals[i].id = goalId
       THEN [savingsGoals[i] EXCEPT
               !.currentAmount = Min(@ + amount, savingsGoals[i].targetAmount)]
       ELSE savingsGoals[i]])

\* the quick-add buttons are rendered while
\* (currentAmount / targetAmount) * 100 < 100
quickAddShown(g) ==
  \/ g.targetAmount > 0 /\ g.currentAmount < g.targetAmount
  \/ g.targetAmount < 0 /\ g.currentAmount > g.targetAmount

\* the goal side as its useState initialisers leave it, on an empty store
GoalsUnmounted ==
  /\ goals = <<>>
  /\ storedGoals = NoBlob
  /\ goalsError = "null"
  /\ dialogErrors = {}
  /\ savingsGoals = <<>>
  /\ storedSavingsGoals = NoBlob
  /\ dashboardGoals = <<>>
  /\ emitted = {}

\* the add-transaction form and the chatbot as their useState initialisers
\* leave them, on a store that holds no profile and behaves
SessionIdle ==
  /\ pending = <<>>
  /\ formErrors = {}
  /\ isLoading = FALSE
  /\ userProfile = NoProfile
  /\ corruptKeys = {}
  /\ writesFail = FALSE
  /\ thrown = {}
  /\ messages = <<>>
  /\ chatLoading = FALSE
  /\ requests = <<>>
  /\ mounted = TRUE

Init ==
  /\ transactions = <<>>
  /\ now \in ClockReadings
  /\ selectedPeriod = "month"
  /\ GoalsUnmounted
  /\ SessionIdle

Submit ==
  /\ Len(transactions) < MaxTxns
  /\ \E form \in Forms : AddTransaction_handleSubmit(form)
Tick == ClockAdvance(ClockReadings)
SelectPeriod == \E p \in Periods : setSelectedPeriod(p)

Next == Submit \/ Tick \/ SelectPeriod

Spec == Init /\ [][Next]_vars

\* the same program on a clock that visits the ends of months and of a year
InitCal ==
  /\ transactions = <<>>
  /\ now \in ClockReadingsCal
  /\ selectedPeriod = "month"
  /\ GoalsUnmounted
  /\ SessionIdle

SubmitCal ==
  /\ Len(transactions) < MaxTxns
  /\ \E form \in FormsCal : AddTransaction_handleSubmit(form)
TickCal == ClockAdvance(ClockReadingsCal)

NextCal == SubmitCal \/ TickCal \/ SelectPeriod

SpecCal == InitCal /\ [][NextCal]_vars

\* the same program opened on a store that already holds one transaction a
\* day for the `run` days before today, and, when `older`, one more
\* transaction two days before that run
StoredRun(run, older) ==
  LET form == CHOOSE f \in FormsStreak : TRUE IN
  [i \in 1..run |-> NewTransaction(form, StreakStart - i * TicksPerDay)]
  \o (IF older
      THEN <<NewTransaction(form, StreakStart - (run + 2) * TicksPerDay)>>
      ELSE <<>>)

InitStreak ==
  /\ \E run \in 0..MaxRun, older \in BOOLEAN : transactions = StoredRun(run, older)
  /\ now = StreakStart
  /\ selectedPeriod = "month"
  /\ GoalsUnmounted
  /\ SessionIdle

SubmitStreak ==
  /\ Cardinality({i \in 1..Len(transactions) :
                    ParseDate(transactions[i].timestamp) >= StreakStart}) < MaxExtra
  /\ \E form \in FormsStreak : AddTransaction_handleSubmit(form)

TickStreak == ClockAdvance(ClockReadingsStreak)

NextStreak == SubmitStreak \/ TickStreak

SpecStreak == InitStreak /\ [][NextStreak]_vars

\* the same program opened on a store of `count` transactions: one income a
\* day for the `run` days before today, the rest on one day long before
StoredLedger(run, count) ==
  LET form == CHOOSE f \in FormsAch : f.type = "income" IN
  [i \in 1..count |->
     NewTransaction(form, StreakStart - (IF i <= run THEN i ELSE 60) * TicksPerDay)]

InitAch ==
  /\ \E run \in AchRuns, count \in AchCounts :
       transactions = StoredLedger(run, count)
  /\ now = StreakStart
  /\ selectedPeriod = "month"
  /\ GoalsUnmounted
  /\ SessionIdle

SubmitAch ==
  /\ Cardinality({i \in 1..Len(transactions) :
                    ParseDate(transactions[i].timestamp) >= StreakStart}) < MaxExtra
  /\ \E form \in FormsAch : AddTransaction_handleSubmit(form)

TickAch == ClockAdvance(ClockReadingsStreak)

NextAch == SubmitAch \/ TickAch

SpecAch == InitAch /\ [][NextAch]_vars

(* ------------------- the goals page and the goal card ----------------- *)
GoalsOpened == Instant(2024, 3, 10, 0)

ClockReadingsGoals == {GoalsOpened, Instant(2024, 3, 11, 1)}

Day(y, m, d) == [year |-> y, month |-> m, day |-> d]

\* a goal form that passes every check of the dialog
BaseForm ==
  [title |-> <<" ", "a", "b", " ">>, description |-> Rep("d", 10),
   target |-> <<"5", "0", "0">>, deadline |-> Day(2024, 3, 12),
   category |-> "other"]

\* what the goal dialog holds when it is submitted: the base form, or the
\* base form with one field, or the title and the target, changed
GoalForms ==
  {BaseForm}
  \cup {[BaseForm EXCEPT !.title = x] : x \in {<<" ", "a", " ">>, Rep("a", 51)}}
  \cup {[BaseForm EXCEPT !.description = x] : x \in {Rep("d", 9), Rep("d", 201)}}
  \cup {[BaseForm EXCEPT !.target = x] :
          x \in {<<"0">>, <<"1", "0", "0", "0", "0", "0", "1">>}}
  \cup {[BaseForm EXCEPT !.title = Rep("a", 50),
                         !.description = <<" ">> \o Rep("d", 200),
                         !.target = <<"1", "0", "0", "0", "0", "0", "0">>]}
  \cup {[BaseForm EXCEPT !.category = x] : x \in {"", "safety"}}
  \cup {[BaseForm EXCEPT !.deadline = x] :
          x \in {NoDay, Day(2024, 3, 10)}}
  \cup {[BaseForm EXCEPT !.title = <<>>, !.target = <<"-", "5">>]}

\* the field retyped before an edit is submitted
EditChanges ==
  << [field |-> "title", text |-> <<" ", "a", " ">>],
     [field |-> "title", text |-> <<"x", "y">>],
     [field |-> "target", text |-> <<"1", "0", "0", "0", "0", "0", "1">>],
     [field |-> "category", text |-> "other"] >>

\* handleInputChange(field, value) on the pre-populated form
EditForm(goal, k) ==
  [prepopulate(goal) EXCEPT ![EditChanges[k].field] = EditChanges[k].text]

AmountTexts ==
  {<<" ">>, <<"0">>, <<"-", "5">>, <<"2", "0">>,
   <<"1", "0", "0", "0", "0", "0">>, <<"1", "0", "0", "0", "0", "1">>}

\* arguments of the calls made on the context value directly
GhostId == 0
CallIds == {GhostId, 1, 10}
CallAmounts == {-5, 0, 20}
CallUpdates == {[target |-> 50, category |-> "gifts"]}

\* a goal saved by an earlier session
StoredGoal ==
  [id |-> 10, title |-> <<"T", "r", "i", "p">>, description |-> Rep("d", 12),
   target |-> 100, current |-> 90,
   deadline |-> ParseDay(Day(2024, 6, 30)), category |-> "travel",
   isAchieved |-> FALSE,
   createdAt |-> Instant(2024, 3, 1, 0), updatedAt |-> Instant(2024, 3, 1, 0)]

\* what the goal card's form holds when Create is pressed
SavingsForms ==
  {[title |-> <<"c", "a", "r">>, targetAmount |-> x, deadline |-> d] :
     x \in {<<>>, <<"1", "0", "0">>, <<"-", "1", "0", "0">>},
     d \in {NoDay, Day(2024, 6, 30)}}
  \cup {[title |-> <<" ">>, targetAmount |-> <<"1", "0", "0">>,
         deadline |-> Day(2024, 6, 30)]}

\* the quick-add buttons that get pressed, of quickAmounts = [10, 25, 50, 100]
QuickClicks == {25, 100}

\* the page is loaded: every component is set up and its mount effect runs
PageLoad(stored, storedSavings, t) ==
  /\ goals = loadGoals(stored, t)
  /\ storedGoals = Blob(stringifyGoals(loadGoals(stored, t)))
  /\ goalsError = "null"
  /\ dialogErrors = {}
  /\ savingsGoals = getLocalSavingsGoals(storedSavings)
  /\ storedSavingsGoals = storedSavings
  /\ dashboardGoals = getLocalSavingsGoals(storedSavings)
  /\ emitted = {}

InitGoals ==
  /\ transactions = <<>>
  /\ now = GoalsOpened
  /\ selectedPeriod = "month"
  /\ \E stored \in {NoBlob, Blob(stringifyGoals(<<StoredGoal>>))} :
       PageLoad(stored, NoBlob, GoalsOpened)
  /\ SessionIdle

\* the browser reloads the page on the store as it is: timers and requests
\* of the old page are gone, every component starts afresh
Reload ==
  LET mount == mountGoals(storedGoals, corruptKeys, writesFail, now) IN
  /\ goals' = mount.goals
  /\ storedGoals' = mount.stored
  /\ goalsError' = mount.error
  /\ dialogErrors' = {}
  /\ savingsGoals' = getLocalSavingsGoals(storedSavingsGoals)
  /\ dashboardGoals' = getLocalSavingsGoals(storedSavingsGoals)
  /\ emitted' = {}
  /\ pending' = <<>>
  /\ formErrors' = {}
  /\ isLoading' = FALSE
  /\ messages' = <<>>
  /\ chatLoading' = FALSE
  /\ requests' = <<>>
  /\ mounted' = TRUE
  /\ UNCHANGED <<transactions, now, selectedPeriod, storedSavingsGoals,
                 userProfile, faultVars>>

\* one thing is done to a goal at one clock reading
Untouched(g) == g.updatedAt # now

\* the dialogs are modal: while one shows its errors nothing else is pressed
NoDialog == dialogErrors = {}

\* the Cancel button: onOpenChange(false); the errors are reset when the
\* dialog opens again
DialogCancel ==
  /\ dialogErrors # {}
  /\ dialogErrors' = {}
  /\ dialogRejects

\* GoalsPage: if (error) return <the error screen with Try Again>
PageShown == goalsError = "null"

CreateGoal ==
  /\ PageShown
  /\ NoDialog
  /\ \A i \in 1..Len(goals) : goals[i].createdAt # now
  /\ \E form \in GoalForms : GoalDialog_handleSubmit(form, "create", StoredGoal)
EditGoal ==
  /\ PageShown
  /\ NoDialog
  /\ \E i \in 1..Len(goals), k \in 1..Len(EditChanges) :
       /\ Untouched(goals[i])
       /\ GoalDialog_handleSubmit(EditForm(goals[i], k), "edit", goals[i])
AddMoney ==
  /\ PageShown
  /\ NoDialog
  /\ \E i \in 1..Len(goals), amount \in AmountTexts :
       Untouched(goals[i]) /\ AddMoneyDialog_handleSubmit(goals[i], amount)
\* GoalsPage.confirmDeleteGoal
ConfirmDelete ==
  /\ PageShown
  /\ NoDialog
  /\ \E i \in 1..Len(goals) :
       GoalsContext_deleteGoal(goals[i].id) /\ UNCHANGED dialogErrors

KnownIds == {goals[i].id : i \in 1..Len(goals)}
Callable(id) == \A i \in 1..Len(goals) : goals[i].id = id => Untouched(goals[i])

CallUpdateGoal ==
  /\ NoDialog
  /\ \E id \in KnownIds \cup {GhostId}, updates \in CallUpdates :
       Callable(id) /\ GoalsContext_updateGoal(id, updates)
       /\ UNCHANGED dialogErrors
CallDeleteGoal ==
  /\ NoDialog
  /\ \E id \in CallIds : GoalsContext_deleteGoal(id) /\ UNCHANGED dialogErrors
CallAddMoney ==
  /\ NoDialog
  /\ \E id \in KnownIds \cup {GhostId}, amount \in CallAmounts :
       Callable(id) /\ GoalsContext_addMoneyToGoal(id, amount)
       /\ UNCHANGED dialogErrors
CallMarkAchieved ==
  /\ NoDialog
  /\ \E id \in KnownIds \cup {GhostId} :
       Callable(id) /\ GoalsContext_markGoalAchieved(id)
       /\ UNCHANGED dialogErrors

CardCreate ==
  /\ NoDialog
  /\ \A i \in 1..Len(savingsGoals) : savingsGoals[i].id # now
  /\ \E form \in SavingsForms : SavingsGoal_handleCreateGoal(form)
CardQuickAdd ==
  /\ NoDialog
  /\ \E i \in 1..Len(savingsGoals), amount \in QuickClicks :
       /\ quickAddShown(savingsGoals[i])
       /\ SavingsGoal_handleAddToGoal(savingsGoals[i].id, amount)
CardDelete ==
  /\ NoDialog
  /\ \E i \in 1..Len(savingsGoals) :
       SavingsGoal_handleDeleteGoal(savingsGoals[i].id)

TickGoals == ClockAdvance(ClockReadingsGoals)

\* the goals page: the ledger, its two dialogs and its callers
NextGoals ==
  \/ CreateGoal \/ EditGoal \/ AddMoney \/ ConfirmDelete
  \/ CallUpdateGoal \/ CallDeleteGoal \/ CallAddMoney \/ CallMarkAchieved
  \/ DialogCancel \/ Reload \/ TickGoals

SpecGoals == InitGoals /\ [][NextGoals]_vars

SubmitCard ==
  /\ NoDialog
  /\ Len(transactions) < MaxTxns
  /\ \E form \in FormsStreak : AddTransaction_handleSubmit(form)

\* the three stores side by side: the dashboard's goal card, deletions on
\* the goals page, and the add-transaction form
NextCard ==
  \/ CardCreate \/ CardQuickAdd \/ CardDelete
  \/ ConfirmDelete \/ CallDeleteGoal
  \/ SubmitCard \/ Reload \/ TickGoals

SpecCard == InitGoals /\ [][NextCard]_vars

\* the ledger of an earlier session: one goal close to its target and one
\* far from it
StoredPair ==
  <<StoredGoal, [StoredGoal EXCEPT !.id = 12, !.current = 10]>>

InitMark ==
  /\ transactions = <<>>
  /\ now = GoalsOpened
  /\ selectedPeriod = "month"
  /\ \E stored \in {Blob(stringifyGoals(StoredPair)),
                    Blob(stringifyGoals(<<StoredPair[2]>>))} :
       PageLoad(stored, NoBlob, GoalsOpened)
  /\ SessionIdle

\* the goals page used for marking goals and adding money only
NextMark ==
  \/ AddMoney \/ CallAddMoney \/ CallMarkAchieved
  \/ DialogCancel \/ Reload \/ TickGoals

SpecMark == InitMark /\ [][NextMark]_vars

(* ------------- the add-transaction tab and the quick actions ---------- *)
ClockReadingsSubmit == {GoalsOpened, Instant(2024, 3, 11, 1)}

\* what gets typed into the amount field
TypedAmounts ==
  { <<>>, <<".">>, <<"0">>, <<"-", "2", "0">>, <<"5", "4", "2", "0">>,
    <<"1", ".", "2", ".", "3">> }

SubmitBase ==
  [amount |-> <<"2", "0">>, description |-> <<" ", "x", " ">>,
   category |-> "Other", type |-> "expense"]

\* what the validated form holds when it is submitted
SubmitForms ==
  {[SubmitBase EXCEPT !.amount = handleAmountChange(<<>>, value)] :
     value \in TypedAmounts}
  \cup {[SubmitBase EXCEPT !.type = "income"],
        [SubmitBase EXCEPT !.description = <<" ">>],
        [SubmitBase EXCEPT !.category = ""]}

InitSubmit ==
  /\ transactions = <<>>
  /\ now = GoalsOpened
  /\ selectedPeriod = "month"
  /\ GoalsUnmounted
  /\ SessionIdle

\* the submit button is disabled while isLoading
SubmitForm ==
  /\ ~isLoading
  /\ Len(transactions) + Len(pending) < MaxTxns
  /\ \E form \in SubmitForms : handleSubmit(form)

TimerFires == handleSubmit_resume

LeaveAndReturn ==
  /\ isLoading \/ formErrors # {}
  /\ setActiveTab

QuickSave ==
  /\ Len(transactions) + Len(pending) < MaxTxns
  /\ handleSaveMoney

QuickIncome ==
  /\ Len(transactions) + Len(pending) < MaxTxns
  /\ handleAddIncome

\* the 500 ms of a submission end before the next clock reading
TickSubmit ==
  /\ pending = <<>>
  /\ ClockAdvance(ClockReadingsSubmit)

NextSubmit ==
  \/ SubmitForm \/ TimerFires \/ LeaveAndReturn
  \/ QuickSave \/ QuickIncome \/ TickSubmit

SpecSubmit == InitSubmit /\ [][NextSubmit]_vars

(* ------------------- a store that fails its users --------------------- *)
\* the components that read the 'transactions' key when they are mounted,
\* and whether the read sits inside a try
Readers ==
  { [name |-> "Dashboard.getLocalData", guarded |-> TRUE],
    [name |-> "Analytics.getLocalTransactions", guarded |-> TRUE],
    [name |-> "TransactionHistory.getLocalTransactions", guarded |-> FALSE] }

\* a component is mounted and reads the key
mountReader(reader) ==
  /\ thrown' = IF parseTransactions(transactions, corruptKeys).threw
                  /\ ~reader.guarded
               THEN thrown \cup {reader.name} ELSE thrown
  /\ UNCHANGED <<transactions, now, selectedPeriod, goalVars, emitted,
                 submitVars, corruptKeys, writesFail, chatVars>>

\* the page is opened on a store with one thing wrong: a key whose text is
\* not JSON, or a quota that is used up
InitFault ==
  /\ transactions = <<>>
  /\ now = GoalsOpened
  /\ selectedPeriod = "month"
  /\ corruptKeys \in {{}, {"transactions"}, {"fintrack-goals"}}
  /\ writesFail = (corruptKeys = {})
  /\ \E stored \in {Blob(stringifyGoals(<<StoredGoal>>))} :
       LET mount == mountGoals(stored, corruptKeys, writesFail, now) IN
       /\ goals = mount.goals
       /\ storedGoals = mount.stored
       /\ goalsError = mount.error
  /\ dialogErrors = {}
  /\ savingsGoals = <<>>
  /\ storedSavingsGoals = NoBlob
  /\ dashboardGoals = <<>>
  /\ emitted = {}
  /\ pending = <<>>
  /\ formErrors = {}
  /\ isLoading = FALSE
  /\ userProfile = NoProfile
  /\ thrown = {}
  /\ messages = <<>>
  /\ chatLoading = FALSE
  /\ requests = <<>>
  /\ mounted = TRUE

OpenTab == \E reader \in Readers : mountReader(reader)

NextFault ==
  \/ SubmitForm \/ TimerFires \/ LeaveAndReturn \/ QuickSave \/ OpenTab
  \/ AddMoney \/ CallMarkAchieved \/ DialogCancel \/ Reload \/ TickSubmit

SpecFault == InitFault /\ [][NextFault]_vars

(* --------------------------- the chatbot ------------------------------ *)
MaxMessages == 5

WelcomeText == "Hey there! I'm your AI financial advisor."
RetryText == "Sorry, I'm having trouble connecting right now."
AdviceRetryText == "Sorry, I couldn't generate personalized advice right now."
NoKeyError == "Gemini API key not configured"
FailedError == "Failed to get AI response. Please try again."

\* what the advisor's endpoint answers: a candidate, an HTTP error, or no
\* candidate at all
Responses ==
  { [ok |-> TRUE, candidates |-> <<"Pay yourself first.">>],
    [ok |-> FALSE, candidates |-> <<>>],
    [ok |-> TRUE, candidates |-> <<>>] }

\* AIService.sendMessage: the text it resolves with, or the Error it rejects
\* with
AIService_sendMessage(apiKey, response) ==
  IF ~apiKey THEN [ok |-> FALSE, text |-> NoKeyError]
  ELSE IF ~response.ok \/ response.candidates = <<>>
  THEN [ok |-> FALSE, text |-> FailedError]
  ELSE [ok |-> TRUE, text |-> response.candidates[1]]

\* the assistant message with the rejection's own text
assistantMessage_Raw(kind, result) ==
  [role |-> "assistant", content |-> result.text]

\* sendMessage / handlePersonalizedAdvice after the await: the assistant
\* message of the try branch or of the catch branch
assistantMessage(kind, result) ==
  [role |-> "assistant",
   content |-> IF result.ok THEN result.text
               ELSE IF kind = "message" THEN RetryText ELSE AdviceRetryText]

\* what a chatbot handler leaves alone
chatFrame ==
  UNCHANGED <<transactions, now, selectedPeriod, goalVars, emitted,
              submitVars, faultVars>>

\* the chat bubble is pressed for the first time: hasInteracted becomes true
\* and the effect puts the welcome message into the empty list
openChat ==
  /\ messages' = <<[role |-> "assistant", content |-> WelcomeText]>>
  /\ UNCHANGED <<chatLoading, requests, mounted>>
  /\ chatFrame

\* FinancialChatbot.sendMessage up to its await
FinancialChatbot_sendMessage(content) ==
  IF trim(content) = <<>> \/ chatLoading
  THEN UNCHANGED vars
  ELSE /\ messages' = Append(messages, [role |-> "user", content |-> trim(content)])
       /\ chatLoading' = TRUE
       /\ requests' = Append(requests, [kind |-> "message", live |-> TRUE])
       /\ UNCHANGED mounted
       /\ chatFrame

\* Index.loadUserData leaves userData undefined when a key does not parse
userDataLoaded == corruptKeys = {}

\* FinancialChatbot.handlePersonalizedAdvice up to its await
handlePersonalizedAdvice ==
  IF ~userDataLoaded
  THEN FinancialChatbot_sendMessage(<<"I", "'", "d", " ", "l", "o", "v", "e">>)
  ELSE /\ chatLoading' = TRUE
       /\ requests' = Append(requests, [kind |-> "advice", live |-> TRUE])
       /\ UNCHANGED <<messages, mounted>>
       /\ chatFrame

\* the i-th request is answered: the handler goes on after its await; the
\* setters of a component that has been unmounted change nothing
responseArrives(i, apiKey, response) ==
  LET result == AIService_sendMessage(apiKey, response) IN
  /\ requests' = SubSeq(requests, 1, i - 1) \o SubSeq(requests, i + 1, Len(requests))
  /\ IF requests[i].live
     THEN /\ messages' = Append(messages, assistantMessage(requests[i].kind, result))
          /\ chatLoading' = FALSE
     ELSE UNCHANGED <<messages, chatLoading>>
  /\ UNCHANGED mounted
  /\ chatFrame

\* UserProfile.handleLogout: navigate('/auth') unmounts Index and the chatbot
\* with it; nothing aborts the fetch
handleLogout ==
  /\ mounted' = FALSE
  /\ messages' = <<>>
  /\ chatLoading' = FALSE
  /\ requests' = [i \in 1..Len(requests) |-> [requests[i] EXCEPT !.live = FALSE]]
  /\ chatFrame

\* the user signs in again: Index and a fresh chatbot are mounted
signIn ==
  /\ mounted' = TRUE
  /\ UNCHANGED <<messages, chatLoading, requests>>
  /\ chatFrame

\* what gets typed into the chat input
ChatInputs == {<<" ">>, <<" ", "h", "i", " ">>, <<"t", "i", "p">>}

InitChat ==
  /\ transactions = <<>>
  /\ now = GoalsOpened
  /\ selectedPeriod = "month"
  /\ GoalsUnmounted
  /\ SessionIdle

OpenChat == mounted /\ messages = <<>> /\ openChat

\* the input and the buttons are disabled while isLoading
SendChat ==
  /\ mounted /\ messages # <<>> /\ ~chatLoading
  /\ Len(messages) < MaxMessages
  /\ \E content \in ChatInputs : FinancialChatbot_sendMessage(content)

AskAdvice ==
  /\ mounted /\ messages # <<>> /\ ~chatLoading
  /\ Len(messages) < MaxMessages
  /\ handlePersonalizedAdvice

Answer ==
  \E i \in 1..Len(requests), apiKey \in BOOLEAN, response \in Responses :
    responseArrives(i, apiKey, response)

Logout == mounted /\ handleLogout

SignIn == ~mounted /\ Len(requests) < 2 /\ signIn

NextChat == OpenChat \/ SendChat \/ AskAdvice \/ Answer \/ Logout \/ SignIn

SpecChat == InitChat /\ [][NextChat]_vars

(* ------------------------ reference quantities ------------------------ *)
Indices(list) == 1..Len(list)

RECURSIVE SumOver(_, _)
\* the sum of the amounts of the transactions of `list` at the indices S
SumOver(list, S) ==
  IF S = {} THEN 0
  ELSE LET i == CHOOSE j \in S : TRUE
       IN list[i].amount + SumOver(list, S \ {i})

IncomeIdx(list) == {i \in Indices(list) : list[i].type = "income"}
ExpenseIdx(list) == {i \in Indices(list) : list[i].type = "expense"}

Reorder(list, f) == [i \in Indices(list) |-> list[f[i]]]
Reorderings(list) == {Reorder(list, f) : f \in Permutations(Indices(list))}

IsNegative(r) == r.num * r.den < 0
EqualsRatio(r, a, b) == r.den # 0 /\ r.num * b = a * 100 * r.den

RECURSIVE SumNum(_)
SumNum(entries) ==
  IF entries = <<>> THEN 0 ELSE Head(entries).percentage.num + SumNum(Tail(entries))

(* ------------------------------ claims -------------------------------- *)

RateTriples ==
  LET s == calculateSummary(transactions, now)
      a == calculateAnalytics(transactions, selectedPeriod, now)
  IN {<<s.totalIncome, s.totalExpenses, s.savingsRate>>,
      <<a.totals.income, a.totals.expense, a.totals.savingsRate>>}
     \cup {<<a.monthlyData[i].income, a.monthlyData[i].expense,
             a.monthlyData[i].savingsRate>> : i \in 1..Len(a.monthlyData)}

RateFormula(x) ==
  /\ x[3].den # 0
  /\ x[1] = 0 => x[3].num = 0
  /\ x[1] # 0 => EqualsRatio(x[3], x[1] - x[2], x[1])
  /\ (x[1] = 1000 /\ x[2] = 600) => EqualsRatio(x[3], 40, 100)

\* C3 as stated: the savings rate is 0 when income is 0, otherwise
\* (income - expense) / income * 100, never NaN or infinite, and negative
\* exactly when expense exceeds income.
C3_SavingsRateAsStated ==
  \A x \in RateTriples :
    RateFormula(x) /\ (IsNegative(x[3]) <=> x[2] > x[1])

\* C3 amended: the savings rate is 0 when income is 0, otherwise
\* (income - expense) / income * 100 (1000 and 600 give 40), never NaN or
\* infinite, and negative exactly when income is not 0 and expense exceeds it.
C3_SavingsRate ==
  \A x \in RateTriples :
    RateFormula(x) /\ (IsNegative(x[3]) <=> (x[1] # 0 /\ x[2] > x[1]))

\* C3 witness: the summary shows 40 for income 1000 and expense 600, while a
\* monthly trend entry has no income but an expense and shows rate 0.
C3_Witness ==
  LET s == calculateSummary(transactions, now)
      a == calculateAnalytics(transactions, selectedPeriod, now)
  IN /\ s.totalIncome = 1000 /\ s.totalExpenses = 600
     /\ s.savingsRate.num = 40 * s.savingsRate.den
     /\ \E i \in 1..Len(a.monthlyData) :
          /\ a.monthlyData[i].income = 0 /\ a.monthlyData[i].expense > 0
          /\ a.monthlyData[i].savingsRate.num = 0

\* C4: when the period-filtered collection holds an expense, the category
\* breakdown has exactly one entry per category with an expense in the
\* window, none with zero transactions, each amount is the sum of that
\* category's expenses, and the percentages add up to 100.
C4_CategoryBreakdown ==
  LET filtered == getFilteredTransactions(transactions, selectedPeriod, now)
      E == ExpenseIdx(filtered)
      data == calculateAnalytics(transactions, selectedPeriod, now).categoryData
      InCat(c) == {i \in E : filtered[i].category = c}
  IN E # {} =>
       /\ {data[k].category : k \in 1..Len(data)} = {filtered[i].category : i \in E}
       /\ Len(data) = Cardinality({filtered[i].category : i \in E})
       /\ \A k \in 1..Len(data) :
            /\ data[k].transactions = Cardinality(InCat(data[k].category))
            /\ data[k].transactions >= 1
            /\ data[k].amount = SumOver(filtered, InCat(data[k].category))
            /\ data[k].percentage.den = SumOver(filtered, E)
       /\ SumNum(data) = 100 * SumOver(filtered, E)

\* C4 witness: the window holds expenses of two categories and an older
\* expense lies outside the window.
C4_Witness ==
  LET filtered == getFilteredTransactions(transactions, selectedPeriod, now)
      data == calculateAnalytics(transactions, selectedPeriod, now).categoryData
  IN /\ Len(data) = 2
     /\ \E i \in ExpenseIdx(transactions) :
          ParseDate(transactions[i].timestamp) < startDate(selectedPeriod, now)

\* C5: in every analytics variant only expenses contribute to the category
\* breakdown: every entry belongs to a category with an expense and its
\* amount is the sum of that category's expenses, so an income creates no
\* entry and changes no amount.
C5_OnlyExpensesInBreakdown ==
  LET filtered == getFilteredTransactions(transactions, selectedPeriod, now)
      data == calculateAnalytics(transactions, selectedPeriod, now).categoryData
      first == spendingByCategory(transactions, <<>>)
  IN /\ \A k \in 1..Len(data) :
          LET S == {i \in ExpenseIdx(filtered) : filtered[i].category = data[k].category}
          IN S # {} /\ data[k].amount = SumOver(filtered, S)
     /\ \A k \in 1..Len(first) :
          LET S == {i \in ExpenseIdx(transactions) :
                      transactions[i].category = first[k].category}
          IN S # {} /\ first[k].amount = SumOver(transactions, S)

\* C2: the monthly totals of calculateSummary take exactly the transactions
\* stamped at or after the first instant of the first day of the month of
\* `now`, income and expense summed apart, net = income - expense.
C2_MonthlyTotals ==
  LET s == calculateSummary(transactions, now)
      firstInstant == MakeDay(getFullYear(now), getMonth(now), 1) * TicksPerDay
      W == {i \in Indices(transactions) :
              ParseDate(transactions[i].timestamp) >= firstInstant}
  IN /\ s.totalIncome = SumOver(transactions, W \cap IncomeIdx(transactions))
     /\ s.totalExpenses = SumOver(transactions, W \cap ExpenseIdx(transactions))
     /\ s.netIncome = s.totalIncome - s.totalExpenses

MonthBefore(a, b) == a.year < b.year \/ (a.year = b.year /\ a.month < b.month)

\* C6: the monthly trend series has exactly one entry per calendar month and
\* year holding one of the input transactions, with that month's income sum,
\* expense sum, savings = income - expense and savings rate (0 without
\* income), in ascending chronological order whatever the input order.
C6_MonthlyTrends ==
  LET filtered == getFilteredTransactions(transactions, selectedPeriod, now)
      data == calculateAnalytics(transactions, selectedPeriod, now).monthlyData
      keys == {toMonthKey(ParseDate(filtered[i].timestamp)) : i \in Indices(filtered)}
      In(k) == {i \in Indices(filtered) :
                  toMonthKey(ParseDate(filtered[i].timestamp)) = k}
  IN /\ {data[k].month : k \in 1..Len(data)} = keys
     /\ Len(data) = Cardinality(keys)
     /\ \A k \in 1..Len(data) :
          LET e == data[k] IN
          /\ e.income = SumOver(filtered, In(e.month) \cap IncomeIdx(filtered))
          /\ e.expense = SumOver(filtered, In(e.month) \cap ExpenseIdx(filtered))
          /\ e.savings = e.income - e.expense
          /\ e.savingsRate.den # 0
          /\ e.income = 0 => e.savingsRate.num = 0
          /\ e.income # 0 => EqualsRatio(e.savingsRate, e.income - e.expense, e.income)
     /\ \A i, j \in 1..Len(data) : i < j => MonthBefore(data[i].month, data[j].month)
     /\ \A list \in Reorderings(transactions) :
          calculateAnalytics(list, selectedPeriod, now).monthlyData = data

\* C6 witness: the series runs over the turn of the year, December 2023
\* before January 2024, with an income in one month and an expense in the other.
C6_Witness ==
  LET data == calculateAnalytics(transactions, selectedPeriod, now).monthlyData
  IN /\ Len(data) >= 2
     /\ data[1].month = [month |-> 11, year |-> 2023]
     /\ data[2].month = [month |-> 0, year |-> 2024]
     /\ \E k \in 1..Len(data) : data[k].income > 0
     /\ \E k \in 1..Len(data) : data[k].income = 0 /\ data[k].expense > 0

FilterIdx(period) ==
  {i \in Indices(transactions) :
     ParseDate(transactions[i].timestamp) >= startDate(period, now)}

RECURSIVE Keep(_, _, _)
\* the elements of `list` at the indices S, from index i on, in their order
Keep(list, S, i) ==
  IF i > Len(list) THEN <<>>
  ELSE (IF i \in S THEN <<list[i]>> ELSE <<>>) \o Keep(list, S, i + 1)

Days(n) == n * TicksPerDay

\* every instant from June 2023 to June 2025 (a leap year in between)
AllInstants == Instant(2023, 6, 1, 0)..Instant(2025, 6, 30, TicksPerDay - 1)

\* at every instant the week starts 7 days back, the month 28 to 31 days
\* back, the quarter 89 to 92 days back, each at the same time of day
WindowStarts ==
  \A t \in AllInstants :
    /\ startDate("week", t) = t - Days(7)
    /\ startDate("month", t) \in {t - Days(n) : n \in 28..31}
    /\ startDate("quarter", t) \in {t - Days(n) : n \in 89..92}

\* C10: for a fixed collection and instant `now` the period filter returns
\* exactly the transactions stamped at or after the window start, which lies
\* 7 days, one month (28 to 31 days) or three months (89 to 92 days) before
\* `now` at the same time of day, for every instant `now` of two years, and
\* the results are nested: week within month within quarter.
C10_PeriodFilter ==
  /\ \A p \in Periods :
       getFilteredTransactions(transactions, p, now)
         = Keep(transactions, FilterIdx(p), 1)
  /\ FilterIdx("week")
       = {i \in Indices(transactions) :
            ParseDate(transactions[i].timestamp) >= now - Days(7)}
  /\ WindowStarts
  /\ FilterIdx("week") \subseteq FilterIdx("month")
  /\ FilterIdx("month") \subseteq FilterIdx("quarter")

\* C10 witness: on 31 March, where "one month before" overflows February,
\* the three results differ: one transaction only in the quarter, one more
\* in the month, one more in the week; the oldest is outside all three.
C10_Witness ==
  /\ toDateString(now) = <<2024, 2, 31>>
  /\ FilterIdx("week") # {}
  /\ FilterIdx("month") \ FilterIdx("week") # {}
  /\ FilterIdx("quarter") \ FilterIdx("month") # {}

(* ------------------------------ streaks ------------------------------- *)
DayOfTxn(list, i) == DayOf(ParseDate(list[i].timestamp))
HasDay(list, d) == \E i \in Indices(list) : DayOfTxn(list, i) = d
DistinctDays(list) == {DayOfTxn(list, i) : i \in Indices(list)}

\* the number of consecutive calendar days d, d - 1, ... holding a transaction
RunEndingAt(list, d) ==
  IF ~HasDay(list, d) THEN 0
  ELSE LET gap == CHOOSE g \in 1..(Len(list) + 1) :
                    /\ ~HasDay(list, d - g)
                    /\ \A h \in 0..(g - 1) : HasDay(list, d - h)
       IN gap

\* C7: the streak of calculateSummary is the number of consecutive calendar
\* days, walking back from today, that each hold a transaction; it stops at
\* the first empty day, except that an empty today is skipped and counting
\* starts from yesterday.
C7_StreakIsBackwardRun ==
  LET today == DayOf(now) IN
  calculateSummary(transactions, now).streak =
    IF HasDay(transactions, today) THEN RunEndingAt(transactions, today)
    ELSE RunEndingAt(transactions, today - 1)

\* C8: for every run length n >= 1, however long: when each of the n most
\* recent calendar days ending today holds a transaction and the day before
\* that run holds none, the streak of calculateSummary is exactly n.
C8_StreakIsRunLength ==
  LET today == DayOf(now) IN
  \A n \in 1..(Len(transactions) + 1) :
    ( /\ \A h \in 0..(n - 1) : HasDay(transactions, today - h)
      /\ ~HasDay(transactions, today - n) )
    => calculateSummary(transactions, now).streak = n

Without(list, i) == SubSeq(list, 1, i - 1) \o SubSeq(list, i + 1, Len(list))

\* C9: in every dashboard variant (calculateSummary, calculateDashboardData)
\* the streak counts days, not transactions: a further transaction on a day
\* that already has one leaves it unchanged, and it never exceeds the
\* number of distinct calendar days that have a transaction.
C9_StreakCountsDays ==
  /\ calculateSummary(transactions, now).streak
       <= Cardinality(DistinctDays(transactions))
  /\ calculateDashboardData(transactions).streak
       <= Cardinality(DistinctDays(transactions))
  /\ \A i \in Indices(transactions) :
       (\E j \in Indices(transactions) :
          j # i /\ DayOfTxn(transactions, j) = DayOfTxn(transactions, i))
       => /\ calculateSummary(Without(transactions, i), now).streak
               = calculateSummary(transactions, now).streak
          /\ calculateDashboardData(Without(transactions, i)).streak
               = calculateDashboardData(transactions).streak

\* metric triples <<streak, count, balance>> around the three thresholds
AltMetrics == {0, 6, 7, 8} \X {0, 49, 50, 51} \X {-240, 999, 1000, 1001}

\* C11: each dashboard achievement rule is unlocked exactly when its metric
\* reaches its threshold (streak >= 7, transaction count >= 50, balance >=
\* 1000), its progress is min(metric, threshold) with maxProgress = threshold,
\* and each rule depends on its own metric only: whatever the other two
\* metrics are, its unlocked flag and progress are the same.
C11_AchievementRules ==
  LET s == calculateSummary(transactions, now)
      a == s.achievements
      metric == <<s.streak, Len(transactions), s.balance>>
      threshold == <<7, 50, 1000>>
  IN /\ Len(a) = 3
     /\ \A i \in 1..3 :
          /\ a[i].unlocked <=> metric[i] >= threshold[i]
          /\ a[i].progress
               = (IF metric[i] < threshold[i] THEN metric[i] ELSE threshold[i])
          /\ a[i].maxProgress = threshold[i]
          /\ \A m \in AltMetrics :
               LET other == [m EXCEPT ![i] = metric[i]] IN
               achievements(other[1], other[2], other[3])[i] = a[i]

\* the streak and the count are past their thresholds, the balance is not
C11_Witness ==
  LET s == calculateSummary(transactions, now) IN
  /\ s.streak > 7
  /\ Len(transactions) > 50
  /\ s.balance < 1000
  /\ s.achievements[1].unlocked
  /\ s.achievements[2].unlocked
  /\ ~s.achievements[3].unlocked

\* C12: with an empty transaction collection the aggregate snapshot is
\* computed without error and is all zero: balance 0, monthly income, expense
\* and net 0, savings rate 0 (a number, not NaN), streak 0, and the category
\* breakdown and the monthly trend list are empty, for every clock reading
\* and every analytics period.
C12_EmptySnapshot ==
  transactions = <<>> =>
    LET s == calculateSummary(transactions, now) IN
    /\ s.balance = 0
    /\ s.totalIncome = 0 /\ s.totalExpenses = 0 /\ s.netIncome = 0
    /\ s.savingsRate.den # 0 /\ s.savingsRate.num = 0
    /\ s.streak = 0
    /\ \A p \in Periods :
         LET a == calculateAnalytics(transactions, p, now) IN
         /\ a.categoryData = <<>>
         /\ a.monthlyData = <<>>
         /\ a.totals.income = 0 /\ a.totals.expense = 0
         /\ a.totals.savings = 0
         /\ a.totals.savingsRate.den # 0 /\ a.totals.savingsRate.num = 0

\* the empty store looked at later, under another analytics period
C12_Witness ==
  /\ transactions = <<>>
  /\ now = Instant(2024, 2, 5, 1)
  /\ selectedPeriod = "quarter"

\* C13: addMoneyToGoal(id, amount) with amount > 0 on an existing goal of the
\* ledger sets that goal's current to current + amount, not capped at the
\* target, sets isAchieved to true when the new current >= target, and
\* leaves every other goal (and the goal's other fields) unchanged.
C13_AddMoney ==
  [][\A i \in 1..Len(goals), amount \in {20, 100000} :
       GoalsContext_addMoneyToGoal(goals[i].id, amount) =>
         /\ Len(goals') = Len(goals)
         /\ goals'[i].current = goals[i].current + amount
         /\ (goals[i].current + amount >= goals[i].target
               => goals'[i].isAchieved)
         /\ \A f \in DOMAIN goals[i] \ {"current", "isAchieved", "updatedAt"} :
              goals'[i][f] = goals[i][f]
         /\ \A j \in 1..Len(goals) : j # i => goals'[j] = goals[j]]_vars

\* the goal with target 100 and 90 saved has had 20 added, next to another
\* goal that has nothing saved
C13_Witness ==
  \E i, j \in 1..Len(goals) :
    /\ goals[i].target = 100 /\ goals[i].current = 110 /\ goals[i].isAchieved
    /\ j # i /\ goals[j].current = 0

\* C14: addMoneyToGoal with amount <= 0 is rejected with an invalid-amount
\* error and changes no goal (current, isAchieved and updatedAt of every goal
\* stay as they were), whether the ledger is called directly or the amount
\* is typed into the add-money dialog.
C14_InvalidAmount ==
  [][/\ \A id \in KnownIds \cup {GhostId}, amount \in CallAmounts :
          amount <= 0 /\ GoalsContext_addMoneyToGoal(id, amount) =>
            /\ goalsError' = "Amount must be greater than 0"
            /\ goals' = goals
            /\ storedGoals' = storedGoals
     /\ \A i \in 1..Len(goals), amount \in AmountTexts :
          /\ parseFloat(amount).nan \/ parseFloat(amount).value <= 0
          /\ AddMoneyDialog_handleSubmit(goals[i], amount)
          => /\ dialogErrors' = {"amount"}
             /\ goals' = goals
             /\ storedGoals' = storedGoals]_vars

\* the ledger has refused an amount while it holds a goal with money saved
C14_Witness ==
  /\ goalsError = "Amount must be greater than 0"
  /\ \E i \in 1..Len(goals) : goals[i].current > 0

\* C15: in both goal stores (the ledger of GoalsContext and the goal card's
\* savingsGoals) a goal's saved amount starts at 0 when the goal is created,
\* is >= 0 in every reachable state, and no add-money operation decreases it.
C15_SavedAmount ==
  [][/\ \A i \in 1..Len(goals') : goals'[i].current >= 0
     /\ \A i \in 1..Len(savingsGoals') : savingsGoals'[i].currentAmount >= 0
     /\ CreateGoal /\ Len(goals') > Len(goals)
          => goals'[Len(goals')].current = 0
     /\ CardCreate /\ Len(savingsGoals') > Len(savingsGoals)
          => savingsGoals'[Len(savingsGoals')].currentAmount = 0
     /\ AddMoney \/ CallAddMoney
          => \A i \in 1..Len(goals) : goals'[i].current >= goals[i].current
     /\ CardQuickAdd
          => \A i \in 1..Len(savingsGoals) :
               savingsGoals'[i].currentAmount >= savingsGoals[i].currentAmount]_vars

\* the text without the blanks at its two ends
Strip(text) ==
  LET inked == {i \in 1..Len(text) : text[i] # " "} IN
  IF inked = {} THEN <<>>
  ELSE SubSeq(text, CHOOSE i \in inked : \A j \in inked : i <= j,
                    CHOOSE i \in inked : \A j \in inked : j <= i)

RECURSIVE Pow10(_)
Pow10(n) == IF n = 0 THEN 1 ELSE 10 * Pow10(n - 1)

\* whether the text is a whole number in decimal digits, and which
IsNumeral(text) == text # <<>> /\ \A i \in 1..Len(text) : text[i] \in DigitChars
RECURSIVE NumeralSum(_, _)
NumeralSum(text, i) ==
  IF i > Len(text) THEN 0
  ELSE DigitValue(text[i]) * Pow10(Len(text) - i) + NumeralSum(text, i + 1)

\* the fields of a goal form that are not valid at time t
FailingFields(form, t) ==
  {f \in {"title"} : ~(Len(Strip(form.title)) \in 2..50)}
  \cup {f \in {"description"} : ~(Len(Strip(form.description)) \in 10..200)}
  \cup {f \in {"target"} :
          ~(IsNumeral(form.target) /\ NumeralSum(form.target, 1) \in 1..1000000)}
  \cup {f \in {"category"} : form.category \notin goalCategories}
  \cup {f \in {"deadline"} :
          \/ form.deadline = NoDay
          \/ Instant(form.deadline.year, form.deadline.month,
                     form.deadline.day, 0) <= t}

\* what can be submitted through the goal dialog in the current state
DialogSubmissions ==
  {[form |-> form, mode |-> "create", goal |-> StoredGoal] : form \in GoalForms}
  \cup {[form |-> EditForm(goals[i], k), mode |-> "edit", goal |-> goals[i]] :
          i \in 1..Len(goals), k \in 1..Len(EditChanges)}

\* C16: a goal create or edit submitted through the goal dialog reaches the
\* ledger only if every field is valid (title 2-50 and description 10-200
\* characters after trimming, target a number > 0 and <= 1,000,000, a
\* recognized category, a deadline strictly after now); when a field is
\* invalid exactly the failing fields are reported and the goal collection,
\* its stored blob and getTotalSaved are unchanged.
C16_GoalDialogValidation ==
  [][\A sub \in DialogSubmissions :
       GoalDialog_handleSubmit(sub.form, sub.mode, sub.goal) =>
         IF FailingFields(sub.form, now) = {}
         THEN dialogErrors' = {}
         ELSE /\ dialogErrors' = FailingFields(sub.form, now)
              /\ goals' = goals
              /\ storedGoals' = storedGoals
              /\ getTotalSaved(goals') = getTotalSaved(goals)]_vars

\* C17: updateGoal with an id that is not in the collection fails with a
\* NotFound error and leaves every goal unchanged; with a known id it merges
\* the supplied fields into that goal only (stamping its updatedAt) and
\* leaves all other goals unchanged.
C17_UpdateGoal ==
  [][\A id \in KnownIds \cup {GhostId}, updates \in CallUpdates :
       GoalsContext_updateGoal(id, updates) /\ UNCHANGED dialogErrors =>
         IF id \notin KnownIds
         THEN goalsError' # "null" /\ goals' = goals
         ELSE /\ Len(goals') = Len(goals)
              /\ \A j \in 1..Len(goals) :
                   IF goals[j].id = id
                   THEN \A f \in DOMAIN goals[j] \ {"updatedAt"} :
                          goals'[j][f] = (IF f \in DOMAIN updates
                                          THEN updates[f] ELSE goals[j][f])
                   ELSE goals'[j] = goals[j]]_vars

\* the list without its elements of the given id
WithoutId(list, id) == Keep(list, {j \in 1..Len(list) : list[j].id # id}, 1)

\* C18: deleteGoal is idempotent, in the ledger and on the goal card:
\* deleting an id removes exactly the goal with that id and no other, raises
\* no error, and deleting the same id again (or any id not in the
\* collection) leaves the collection unchanged.
C18_DeleteIdempotent ==
  [][/\ \A id \in KnownIds \cup CallIds :
          GoalsContext_deleteGoal(id) /\ UNCHANGED dialogErrors =>
            /\ goals' = WithoutId(goals, id)
            /\ goalsError' = "null"
            /\ deleteGoal(goals', id) = goals'
            /\ id \notin KnownIds => goals' = goals
     /\ \A i \in 1..Len(savingsGoals) :
          SavingsGoal_handleDeleteGoal(savingsGoals[i].id) =>
            /\ savingsGoals' = WithoutId(savingsGoals, savingsGoals[i].id)
            /\ storedSavingsGoals' = Blob(savingsGoals')
            /\ \A j \in 1..Len(savingsGoals') :
                 savingsGoals'[j].id # savingsGoals[i].id]_vars

\* the middle one of the three first-run goals has been deleted, and so has
\* the only goal of the card
C18_Witness ==
  /\ {goals[i].id : i \in 1..Len(goals)} = {1, 3}
  /\ Len(goals) = 2
  /\ storedSavingsGoals.present /\ savingsGoals = <<>>

\* C19: every mutation of the transaction collection or of a goal collection
\* first writes the updated collection to the store and then emits the
\* matching signal (transactionsUpdated or savingsGoalsUpdated), so that a
\* subscriber reloading on the signal reads a collection that includes the
\* mutation.
C19_WriteThenBroadcast ==
  [][/\ transactions' # transactions => "transactionsUpdated" \in emitted'
     /\ savingsGoals' # savingsGoals /\ ~Reload
          => /\ storedSavingsGoals' = Blob(savingsGoals')
             /\ "savingsGoalsUpdated" \in emitted'
             /\ dashboardGoals' = savingsGoals'
     /\ goals' # goals /\ ~Reload
          => /\ storedGoals' = Blob(stringifyGoals(goals'))
             /\ "savingsGoalsUpdated" \in emitted']_vars

\* C20: after every goal-ledger mutation has settled, the goal collection
\* persisted in the store equals the in-memory collection, the empty one
\* included, so a reload shows exactly the goals present before it.
C20_PersistedEqualsMemory ==
  /\ storedGoals = Blob(stringifyGoals(goals))
  /\ loadGoals(storedGoals, now) = goals

\* C28: once a goal's isAchieved flag is true (set by addMoneyToGoal reaching
\* the target, or by markGoalAchieved whatever current and target are), no
\* later addMoneyToGoal call on any goal sets it back to false.
C28_AchievedIsKept ==
  [][\A id \in KnownIds \cup {GhostId}, amount \in {20, 100000} :
       GoalsContext_addMoneyToGoal(id, amount) =>
         \A i \in 1..Len(goals) :
           goals[i].isAchieved =>
             /\ Len(goals') = Len(goals)
             /\ goals'[i].isAchieved]_vars

\* C30: in every reachable state each achievement produced by
\* calculateSummary satisfies 0 <= progress <= maxProgress, and its unlocked
\* flag is true exactly when progress = maxProgress.
C30_ProgressInRange ==
  LET a == calculateSummary(transactions, now).achievements IN
  \A i \in 1..Len(a) :
    /\ 0 <= a[i].progress
    /\ a[i].progress <= a[i].maxProgress
    /\ a[i].unlocked <=> a[i].progress = a[i].maxProgress

\* C21: adding a transaction places the new record at the head of the stored
\* collection and leaves all previously stored records present, unmodified
\* and in the same relative order; no operation removes or edits a stored
\* transaction, so the collection's length never decreases.
C21_AddAtHead ==
  [][/\ transactions' # transactions =>
          /\ Len(transactions') = Len(transactions) + 1
          /\ Tail(transactions') = transactions
     /\ handleSubmit_resume =>
          Head(transactions')
            = stringifyTransaction(newTransaction(Head(pending).form, now))
     /\ handleSaveMoney =>
          /\ Head(transactions').amount = JsonNumber(50)
          /\ Head(transactions').category = "Savings"
     /\ handleAddIncome =>
          /\ Head(transactions').amount = JsonNumber(100)
          /\ Head(transactions').category = "Income"]_vars

\* a record of the form lies on top of a record of a quick action and of an
\* older record of the form
C21_Witness ==
  /\ Len(transactions) = 3
  /\ transactions[1].category = "Other"
  /\ transactions[2].category = "Savings"
  /\ transactions[3].type = "income" /\ transactions[3].category = "Other"

\* C22: every transaction written to the store by the validated
\* add-transaction form has a numeric amount > 0: a submission whose amount
\* text is empty, is not a number (for example a lone decimal point), or
\* parses to a value <= 0 is rejected and writes nothing to the store.
C22_PositiveAmounts ==
  \A i \in 1..Len(transactions) :
    /\ ~transactions[i].amount.null
    /\ transactions[i].amount.value > 0

\* C23: the submission's read-modify-write of the stored collection is atomic
\* with respect to every other mutation: when the delays of two submissions
\* overlap, or a quick action runs during a submission's delay, every
\* submitted transaction is in the stored collection afterwards (no lost
\* update), and every change of the collection is announced after it has
\* been written.
C23_NoLostUpdate ==
  [][/\ Len(pending') < Len(pending) =>
          /\ pending' = Tail(pending)
          /\ transactions'
               = <<stringifyTransaction(newTransaction(Head(pending).form, now))>>
                   \o transactions
     /\ Len(pending') >= Len(pending) =>
          /\ \A i \in 1..Len(pending) : pending'[i].form = pending[i].form
          /\ \E k \in {0, 1} :
               /\ Len(transactions') = Len(transactions) + k
               /\ \A i \in 1..Len(transactions) :
                    transactions'[i + k] = transactions[i]
     /\ transactions' # transactions => "transactionsUpdated" \in emitted']_vars

\* two submissions are inside their delays at once, the older one started by
\* a form that has been left since, on top of a record of a quick action
C23_Witness ==
  /\ Len(pending) = 2
  /\ ~pending[1].live /\ pending[2].live
  /\ Len(transactions) = 1
  /\ transactions[1].category = "Income"

\* C29: after every completed add-transaction submission the cached
\* userProfile.balance differs from its stored value before the submission
\* by exactly +amount for an income and -amount for an expense.
C29_CachedBalanceStep ==
  [][/\ pending # <<>>
     /\ handleSubmit_resume
     /\ userProfile.present /\ ~userProfile.balance.null
     /\ ~parseFloat(Head(pending).form.amount).nan
     => LET amount == parseFloat(Head(pending).form.amount).value IN
        userProfile'.balance
          = JsonNumber(userProfile.balance.value
                         + (IF Head(pending).form.type = "income"
                            THEN amount ELSE 0 - amount))]_vars

\* C24: when the stored blob for transactions or for goals is unparseable
\* JSON, every reader and writer of that blob (dashboard, analytics,
\* transaction history, add-transaction, goal ledger) degrades to an empty
\* collection and continues without throwing.
C24_CorruptStoreTolerated ==
  corruptKeys # {} =>
    /\ thrown = {}
    /\ "fintrack-goals" \in corruptKeys => goals = <<>>

\* C25: when a write to the persistence layer fails, the failure is surfaced
\* as a non-blocking warning and the in-memory state stays usable for the
\* session: no exception escapes a handler, a further transaction submission
\* can be started once the earlier ones have run, and the goals page keeps
\* showing the goals.
C25_WriteFailureTolerated ==
  writesFail =>
    /\ thrown = {}
    /\ pending = <<>> => ~isLoading
    /\ PageShown

\* C26: for every chat message sent while no request is in flight, the
\* chatbot appends the user's message and then exactly one assistant
\* message: the advisor's text on success, or a fixed friendly retry message
\* on any failure (missing API key, HTTP error, empty candidate list), never
\* the raw error text; afterwards the loading flag is false again.
C26_OneAssistantMessage ==
  [][/\ \A content \in ChatInputs :
          /\ trim(content) # <<>> /\ ~chatLoading /\ mounted
          /\ FinancialChatbot_sendMessage(content)
          => /\ messages'
                  = Append(messages, [role |-> "user", content |-> trim(content)])
             /\ chatLoading'
     /\ \A i \in 1..Len(requests), apiKey \in BOOLEAN, response \in Responses :
          requests[i].live /\ responseArrives(i, apiKey, response) =>
            /\ Len(messages') = Len(messages) + 1
            /\ SubSeq(messages', 1, Len(messages)) = messages
            /\ messages'[Len(messages')].role = "assistant"
            /\ messages'[Len(messages')].content
                 = (IF apiKey /\ response.ok /\ response.candidates # <<>>
                    THEN response.candidates[1]
                    ELSE IF requests[i].kind = "message" THEN RetryText
                    ELSE AdviceRetryText)
            /\ messages'[Len(messages')].content \notin {NoKeyError, FailedError}
            /\ ~chatLoading'
     /\ chatLoading /\ chatLoading' => messages' = messages]_vars

\* after the welcome, one message has been answered with the retry text and
\* the next one with the advisor's text
C26_Witness ==
  /\ Len(messages) = 5
  /\ ~chatLoading
  /\ messages[2].role = "user" /\ messages[4].role = "user"
  /\ messages[3].role = "assistant" /\ messages[3].content = RetryText
  /\ messages[5].role = "assistant"
  /\ messages[5].content = "Pay yourself first."

\* C27: if the chatbot UI is torn down while an advisor request is in
\* flight, the request is cancelled, and a response or error that arrives
\* afterwards is discarded: it is not appended to the message list and
\* changes no state.
C27_TeardownCancels ==
  [][/\ mounted /\ ~mounted' => requests' = <<>>
     /\ \A i \in 1..Len(requests), apiKey \in BOOLEAN, response \in Responses :
          ~requests[i].live /\ responseArrives(i, apiKey, response) =>
            UNCHANGED <<messages, chatLoading, mounted>>]_vars


=============================================================================
